---- MODULE Spec2Model ----
(***************************************************************************)
(* Verification model of the chuckram blockchain node:                     *)
(*   - BlockchainService + StateManager (ledger / state transition)        *)
(*   - ConsensusEngine (validator set, votes, finalization)                *)
(*   - P2PNetwork (connections, handshake, peer table)                     *)
(*   - MempoolService (pending transactions, fee-ordered extraction)       *)
(* Each component has its own specification over the shared variable       *)
(* tuple; a specification leaves the other components' variables alone.    *)
(***************************************************************************)
EXTENDS Integers, Sequences, FiniteSets, TLC

VARIABLES
  \* BlockchainService (blockchain.service.ts)
  blocks,            \* Map hash -> block
  blocksByHeight,    \* Map height -> hash
  lastBlockHash,     \* string | undefined
  chainHeight,       \* number
  initialized,       \* boolean
  initDone,          \* onModuleInit has run (lifecycle position)
  calls,             \* addBlock calls in start order, each with its position
  \* StateManager (state-manager.service.ts)
  balances,          \* Map address -> bigint
  validators,        \* Map address -> registry entry
  nonces,            \* Map address -> number
  stateChainHeight,  \* StateManager.chainHeight
  stateLastBlockHash,\* StateManager.lastBlockHash
  \* ConsensusEngine (consensus.ts)
  currentValidators, \* state.currentValidators
  pendingValidators, \* state.pendingValidators
  lastRotationBlock, \* state.lastRotationBlock
  currentProposer,   \* state.currentProposer
  round,             \* state.round
  votes,             \* Map blockHash -> Vote[]
  finalizedCalls,    \* number of onBlockFinalized invocations per block hash
  \* P2PNetwork (p2p.ts)
  peers,             \* Map peerId -> Peer
  connections,       \* Map peerId -> WebSocket
  sockets,           \* the WebSocket objects and their handler closures
  clock,             \* Date.now()
  server,            \* the WebSocketServer: "listening" or "closed"
  intervals,         \* the periodic tasks scheduled with setInterval
  \* MempoolService (mempool.service.ts)
  pendingTransactions,   \* Map id -> transaction, in insertion order
  transactionsByAccount, \* Map sender -> Set of ids
  \* Blockchain (libs/features/currency converter.ts)
  chain,             \* Block[]
  state,             \* ChainState: height, lastBlockHash, balances
  mempool,           \* Transaction[]
  \* the operation performed by the last step, with its inputs and outcome
  lastOp

ledgerVars == <<blocks, blocksByHeight, lastBlockHash, chainHeight, initialized, initDone,
               calls>>
stateVars == <<balances, validators, nonces, stateChainHeight, stateLastBlockHash>>
consensusVars == <<currentValidators, pendingValidators, lastRotationBlock,
                   currentProposer, round, votes, finalizedCalls>>
p2pVars == <<peers, connections, sockets, clock, server, intervals>>
mempoolVars == <<pendingTransactions, transactionsByAccount>>
libraryVars == <<chain, state, mempool>>
vars == <<ledgerVars, stateVars, consensusVars, p2pVars, mempoolVars, libraryVars, lastOp>>

(***************************************************************************)
(* Bounds of the model                                                     *)
(***************************************************************************)
MaxHeight == 2        \* block heights offered to addBlock: 0..MaxHeight
MaxBlocks == 3        \* blocks the index may hold
MaxLimit == 3         \* limits passed to getLatestBlocks: 0..MaxLimit
MaxCalls == 2         \* addBlock calls that run step by step
GenesisSupply == 116  \* amount minted by the genesis transaction (scaled)

(***************************************************************************)
(* Strings, hashes and maps                                                *)
(***************************************************************************)
\* A string is a sequence of characters, so that concatenation is modelled
\* as the code performs it.  A SHA-256 digest of a string is the string
\* wrapped in delimiters: injective, of a shape of its own, never all zeros.
Sha256(data) == <<"sha256(">> \o data \o <<")">>

ZeroHash == <<"0{64}">>
Undefined == <<"undefined">>
EmptyString == << >>
BogusHash == <<"f00d">>
SystemAddress == "0000000000000000000000000000000000000000"

DigitChars == <<"0", "1", "2", "3", "4", "5", "6", "7", "8", "9">>

RECURSIVE NumToString(_)
NumToString(n) ==
  IF n < 10 THEN <<DigitChars[n + 1]>>
  ELSE NumToString(n \div 10) \o <<DigitChars[(n % 10) + 1]>>

RECURSIVE Join(_)
Join(strs) == IF strs = << >> THEN << >> ELSE Head(strs) \o Join(Tail(strs))

MapGet(m, k, default) == IF k \in DOMAIN m THEN m[k] ELSE default
MapSet(m, k, v) == [x \in (DOMAIN m) \cup {k} |-> IF x = k THEN v ELSE m[x]]
MapDelete(m, k) == [x \in (DOMAIN m) \ {k} |-> m[x]]
EmptyMap == [x \in {} |-> 0]
Max(a, b) == IF a >= b THEN a ELSE b

(***************************************************************************)
(* StateManager                                                            *)
(***************************************************************************)
GetBalance(bal, address) == MapGet(bal, address, 0)
SetBalance(bal, address, balance) == MapSet(bal, address, balance)
GetNonce(non, address) == MapGet(non, address, 0)

\* "Fee goes to system": credited only when positive
CreditFee(bal, feeValue) ==
  IF feeValue > 0
  THEN SetBalance(bal, SystemAddress, GetBalance(bal, SystemAddress) + feeValue)
  ELSE bal

Thrown(st) == [ok |-> FALSE, st |-> st]
Returned(st) == [ok |-> TRUE, st |-> st]

\* st = [balances, validators, nonces, chainHeight, events]
\* faulty variant: the balance check leaves the fee out
ApplyTransferTransaction_FeeUnchecked(st, tx) ==
  LET totalDebit == tx.amount + tx.fee
      senderBalance == GetBalance(st.balances, tx.from)
  IN IF senderBalance < tx.amount THEN Thrown(st)
     ELSE LET b1 == SetBalance(st.balances, tx.from, senderBalance - totalDebit)
              b2 == SetBalance(b1, tx.to, GetBalance(b1, tx.to) + tx.amount)
          IN Returned([st EXCEPT !.balances = CreditFee(b2, tx.fee)])

\* applyTransferTransaction(tx)
ApplyTransferTransaction(st, tx) ==
  LET totalDebit == tx.amount + tx.fee
      senderBalance == GetBalance(st.balances, tx.from)
  IN IF senderBalance < totalDebit THEN Thrown(st)
     ELSE LET b1 == SetBalance(st.balances, tx.from, senderBalance - totalDebit)
              b2 == SetBalance(b1, tx.to, GetBalance(b1, tx.to) + tx.amount)
          IN Returned([st EXCEPT !.balances = CreditFee(b2, tx.fee)])

ApplyMintTransaction(st, tx) ==
  Returned([st EXCEPT !.balances =
              SetBalance(st.balances, tx.to, GetBalance(st.balances, tx.to) + tx.amount)])

\* faulty variant: the fee is removed with the principal, not credited
ApplyBurnTransaction_FeeBurned(st, tx) ==
  LET totalDebit == tx.amount + tx.fee
      senderBalance == GetBalance(st.balances, tx.from)
  IN IF senderBalance < totalDebit THEN Thrown(st)
     ELSE Returned([st EXCEPT !.balances =
                      SetBalance(st.balances, tx.from, senderBalance - totalDebit)])

ApplyBurnTransaction(st, tx) ==
  LET totalDebit == tx.amount + tx.fee
      senderBalance == GetBalance(st.balances, tx.from)
  IN IF senderBalance < totalDebit THEN Thrown(st)
     ELSE LET b1 == SetBalance(st.balances, tx.from, senderBalance - totalDebit)
          IN Returned([st EXCEPT !.balances = CreditFee(b1, tx.fee)])

ApplyValidatorRegistration(st, tx) ==
  LET stakeValue == tx.stake
      totalDebit == tx.fee + stakeValue
      senderBalance == GetBalance(st.balances, tx.from)
  IN IF senderBalance < totalDebit THEN Thrown(st)
     ELSE LET b1 == SetBalance(st.balances, tx.from, senderBalance - totalDebit)
          IN Returned([st EXCEPT
               !.balances = CreditFee(b1, tx.fee),
               !.validators = MapSet(st.validators, tx.from,
                   [address |-> tx.from, type |-> tx.validatorType,
                    stake |-> stakeValue, registeredAt |-> tx.timestamp,
                    active |-> TRUE, lastActiveBlock |-> st.chainHeight]),
               !.events = Append(st.events, "validator.registered")])

ApplyRewardTransaction(st, tx) ==
  Returned([st EXCEPT !.balances =
              SetBalance(st.balances, tx.to, GetBalance(st.balances, tx.to) + tx.amount)])

\* the switch on tx.type
ApplyByType(st, tx) ==
  CASE tx.type = "TRANSFER" -> ApplyTransferTransaction(st, tx)
    [] tx.type = "MINT" -> ApplyMintTransaction(st, tx)
    [] tx.type = "BURN" -> ApplyBurnTransaction(st, tx)
    [] tx.type = "VALIDATOR_REGISTRATION" -> ApplyValidatorRegistration(st, tx)
    [] tx.type = "REWARD" -> ApplyRewardTransaction(st, tx)
    [] OTHER -> Thrown(st)

\* faulty variant: the nonce is overwritten with tx.nonce + 1
UpdateNonce_Overwrite(r, tx) ==
  IF ~r.ok THEN r
  ELSE IF tx.from # SystemAddress
       THEN Returned([r.st EXCEPT !.nonces = MapSet(r.st.nonces, tx.from, tx.nonce + 1)])
       ELSE r

\* "Update nonce for sender (except for system transactions)", reached only
\* when the switch did not throw
UpdateNonce(r, tx) ==
  IF ~r.ok THEN r
  ELSE IF tx.from # SystemAddress
       THEN Returned([r.st EXCEPT !.nonces =
              MapSet(r.st.nonces, tx.from,
                     Max(GetNonce(r.st.nonces, tx.from), tx.nonce + 1))])
       ELSE r

ApplyTransaction(st, tx) == UpdateNonce(ApplyByType(st, tx), tx)

\* the loop "for (const tx of transactions) await this.applyTransaction(tx)":
\* the first throw leaves the loop with the earlier transactions applied
RECURSIVE ApplyTransactions(_, _)
RECURSIVE ApplyRemaining(_, _)
ApplyRemaining(r, txs) == IF r.ok THEN ApplyTransactions(r.st, txs) ELSE r

ApplyTransactions(st, txs) ==
  IF txs = << >> THEN Returned(st)
  ELSE ApplyRemaining(ApplyTransaction(st, Head(txs)), Tail(txs))

\* StateManager.applyBlock: result [ok, st, height, hash]
\* the chain-state update and event after the loop, skipped by a throw
BlockApplied(r, block) ==
  IF r.ok
  THEN [ok |-> TRUE,
        st |-> [r.st EXCEPT !.chainHeight = block.header.height,
                            !.events = Append(r.st.events, "blockchain.state.updated")],
        lastBlockHash |-> block.hash]
  ELSE [ok |-> FALSE, st |-> r.st, lastBlockHash |-> stateLastBlockHash]

ApplyBlock(st, block) == BlockApplied(ApplyTransactions(st, block.transactions), block)

\* StateManager.initialize
\* "Reset state"
ClearedState ==
  [balances |-> EmptyMap, validators |-> EmptyMap, nonces |-> EmptyMap,
   chainHeight |-> stateChainHeight, events |-> << >>]

\* "Update chain state" after the genesis transactions, skipped by a throw
GenesisApplied(r, genesisBlock) ==
  IF r.ok
  THEN [ok |-> TRUE, st |-> [r.st EXCEPT !.chainHeight = 0],
        lastBlockHash |-> genesisBlock.hash]
  ELSE [ok |-> FALSE, st |-> r.st, lastBlockHash |-> stateLastBlockHash]

StateInitialize(genesisBlock) ==
  GenesisApplied(ApplyTransactions(ClearedState, genesisBlock.transactions), genesisBlock)

RECURSIVE SumBalances(_, _)
SumBalances(bal, addresses) ==
  IF addresses = {} THEN 0
  ELSE LET a == CHOOSE x \in addresses : TRUE
       IN bal[a] + SumBalances(bal, addresses \ {a})

GetTotalSupply(bal) == SumBalances(bal, DOMAIN bal)

CurrentState ==
  [balances |-> balances, validators |-> validators, nonces |-> nonces,
   chainHeight |-> stateChainHeight, events |-> << >>]

(***************************************************************************)
(* BlockchainService                                                       *)
(***************************************************************************)
CalculateBlockHash(block) ==
  LET header == block.header
  IN Sha256(NumToString(header.version) \o header.previousHash \o header.merkleRoot
            \o NumToString(header.timestamp) \o NumToString(header.height)
            \o header.validatorAddress \o NumToString(block.nonce))

CalculateMerkleRoot(transactions) ==
  IF Len(transactions) = 0 THEN ZeroHash
  ELSE Sha256(Join([i \in 1..Len(transactions) |-> transactions[i].id]))

GetBlock(hash) == MapGet(blocks, hash, "null")

GetBlockByHeight(height) ==
  IF height \in DOMAIN blocksByHeight THEN GetBlock(blocksByHeight[height]) ELSE "null"

\* "if (block)": the height is indexed and its hash is held
HasBlockAtHeight(height) ==
  height \in DOMAIN blocksByHeight /\ blocksByHeight[height] \in DOMAIN blocks

\* BlockchainService.getLatestBlocks(limit): the loop runs from chainHeight
\* down while height > Math.max(0, chainHeight - limit)
GetLatestBlocks(limit) ==
  LET low == Max(0, chainHeight - limit)
      visited == [i \in 1..Max(0, chainHeight - low) |-> chainHeight + 1 - i]
      found == SelectSeq(visited, HasBlockAtHeight)
  IN [i \in 1..Len(found) |-> GetBlockByHeight(found[i])]

ValidateGenesisBlock(block) ==
  block.header.height = 0 /\ block.header.previousHash = ZeroHash

\* BlockchainService.validateTransaction: "return true"
ValidateTransaction(tx) == TRUE

\* the checks of validateBlock that follow the genesis branch
ValidateAgainstPrevious(block) ==
  LET prevBlock == GetBlockByHeight(block.header.height - 1)
  IN /\ (block.header.height - 1) \in DOMAIN blocksByHeight
     /\ prevBlock.hash = block.header.previousHash
     /\ block.header.height = prevBlock.header.height + 1
     /\ ~(block.header.timestamp <= prevBlock.header.timestamp)
     /\ CalculateMerkleRoot(block.transactions) = block.header.merkleRoot
     /\ \A i \in 1..Len(block.transactions) : ValidateTransaction(block.transactions[i])

\* StateManager.validateTransaction(tx) on the current account state; it has
\* no caller in BlockchainService
StateValidateTransaction(tx) ==
  /\ tx.from # SystemAddress => ~(tx.nonce < GetNonce(nonces, tx.from))
  /\ tx.type \in {"TRANSFER", "BURN", "VALIDATOR_REGISTRATION"}
       => ~(GetBalance(balances, tx.from)
              < tx.amount + tx.fee
                  + (IF tx.type = "VALIDATOR_REGISTRATION" THEN tx.stake ELSE 0))

\* faulty variant: the stored hash is not compared with the recomputed one
ValidateBlock_NoHashCheck(block) ==
  /\ block.hash # EmptyString
  /\ IF block.header.height = 0
     THEN ValidateGenesisBlock(block)
     ELSE ValidateAgainstPrevious(block)

\* faulty variant: the genesis branch is taken on the all-zero previousHash
ValidateBlock_GenesisByPreviousHash(block) ==
  /\ block.hash # EmptyString
  /\ CalculateBlockHash(block) = block.hash
  /\ IF block.header.previousHash = ZeroHash
     THEN TRUE
     ELSE ValidateAgainstPrevious(block)

\* faulty variant: the timestamp is not compared with the predecessor's
ValidateBlock_NoTimestampCheck(block) ==
  /\ block.hash # EmptyString
  /\ CalculateBlockHash(block) = block.hash
  /\ IF block.header.height = 0
     THEN ValidateGenesisBlock(block)
     ELSE LET prevBlock == GetBlockByHeight(block.header.height - 1)
          IN /\ (block.header.height - 1) \in DOMAIN blocksByHeight
             /\ prevBlock.hash = block.header.previousHash
             /\ CalculateMerkleRoot(block.transactions) = block.header.merkleRoot

\* faulty variant: the block indexed at the height below is not looked up
ValidateBlock_NoPredecessor(block) ==
  /\ block.hash # EmptyString
  /\ CalculateBlockHash(block) = block.hash
  /\ IF block.header.height = 0
     THEN ValidateGenesisBlock(block)
     ELSE CalculateMerkleRoot(block.transactions) = block.header.merkleRoot

ValidateBlock(block) ==
  /\ block.hash # EmptyString
  /\ CalculateBlockHash(block) = block.hash
  /\ IF block.header.height = 0
     THEN ValidateGenesisBlock(block)
     ELSE ValidateAgainstPrevious(block)

\* Outcome of BlockchainService.addBlock(block) in the current state:
\* [result, blocks, blocksByHeight, chainHeight, lastBlockHash, st,
\*  stateLastBlockHash, events]
Unchanged(result) ==
  [result |-> result, blocks |-> blocks, blocksByHeight |-> blocksByHeight,
   chainHeight |-> chainHeight, lastBlockHash |-> lastBlockHash,
   st |-> CurrentState, stateLastBlockHash |-> stateLastBlockHash, events |-> << >>]

\* the outcome once the block is indexed; a is the outcome of applyBlock
Indexed(block, result, applied, a, events) ==
  [result |-> result,
   blocks |-> MapSet(blocks, block.hash, block),
   blocksByHeight |-> MapSet(blocksByHeight, block.header.height, block.hash),
   chainHeight |-> IF applied THEN block.header.height ELSE chainHeight,
   lastBlockHash |-> IF applied THEN block.hash ELSE lastBlockHash,
   st |-> a.st, stateLastBlockHash |-> a.lastBlockHash, events |-> events]

\* applyBlock rethrows: addBlock then rejects after the index, the chain head
\* and part of the state were written, and emits nothing more
NewHead(block, a) ==
  IF a.ok
  THEN Indexed(block, "true", TRUE, a,
               a.st.events \o <<"blockchain.state.updated", "blockchain.block.added">>)
  ELSE Indexed(block, "throw", TRUE, a, a.st.events)

IndexAndApply(block) ==
  IF block.header.height > chainHeight
  THEN NewHead(block, ApplyBlock(CurrentState, block))
  ELSE Indexed(block, "true", FALSE,
               [st |-> CurrentState, lastBlockHash |-> stateLastBlockHash],
               <<"blockchain.block.added">>)

\* faulty variant: the hash is not looked up in the index first
AddBlockResult_NoExistsCheck(block) ==
  IF ~ValidateBlock(block) THEN Unchanged("false") ELSE IndexAndApply(block)

AddBlockResult(block) ==
  IF block.hash \in DOMAIN blocks THEN Unchanged("false")
  ELSE IF ~ValidateBlock(block) THEN Unchanged("false")
  ELSE IndexAndApply(block)

(***************************************************************************)
(* Inputs of the ledger: transactions and blocks                           *)
(***************************************************************************)
Tx(id, type, from, to, amount, fee, nonce, stake) ==
  [id |-> id, type |-> type, from |-> from, to |-> to, amount |-> amount,
   fee |-> fee, nonce |-> nonce, stake |-> stake, validatorType |-> "CITIZEN",
   timestamp |-> 1]

GenesisMint == Tx(<<"m">>, "MINT", SystemAddress, "treasury", GenesisSupply, 0, 0, 0)
FundAlice == Tx(<<"a">>, "TRANSFER", "treasury", "alice", 100, 16, 0, 0)
AliceToBob == Tx(<<"b">>, "TRANSFER", "alice", "bob", 100, 16, 0, 0)
AliceBurns == Tx(<<"a", "b">>, "BURN", "alice", "", 50, 0, 1, 0)
AliceRegisters == Tx(<<"c">>, "VALIDATOR_REGISTRATION", "alice", "", 0, 16, 0, 50)
RewardBob == Tx(<<"d">>, "REWARD", SystemAddress, "bob", 5, 0, 0, 0)
Unsupported == Tx(<<"e">>, "STAKE", "bob", "bob", 1, 0, 0, 0)

TxLists ==
  { << >>, <<FundAlice>>, <<FundAlice, AliceToBob>>, <<AliceBurns>>,
    <<AliceRegisters>>, <<RewardBob, Unsupported>> }

ValidatorAddresses == { <<"v", "1">>, <<"v", "2">> }

MkBlock(height, previousHash, merkleRoot, timestamp, validatorAddress, transactions) ==
  [header |-> [version |-> 1, previousHash |-> previousHash, merkleRoot |-> merkleRoot,
               timestamp |-> timestamp, height |-> height,
               validatorAddress |-> validatorAddress],
   transactions |-> transactions, nonce |-> 0, hash |-> EmptyString]

Sealed(block) == [block EXCEPT !.hash = CalculateBlockHash(block)]

\* genesis.service.ts, createDefaultGenesisBlock
DefaultGenesisBlock ==
  Sealed(MkBlock(0, ZeroHash, CalculateMerkleRoot(<<GenesisMint>>), 1,
                 <<"0{40}">>, <<GenesisMint>>))

\* a genesis file whose stored hash does not match its header
StaleGenesisFile == [DefaultGenesisBlock EXCEPT !.hash = BogusHash]

GenesisBlocks == {DefaultGenesisBlock, StaleGenesisFile}

\* The blocks offered to addBlock and validateBlock in the current state.
\* Blocks that extend the block indexed at the height below, with the
\* timestamp of that block or the next one (a timestamp not above the previous
\* one only with one body).
ExtendingBlocks ==
  { Sealed(MkBlock(h, blocksByHeight[h - 1], CalculateMerkleRoot(txs),
                   GetBlockByHeight(h - 1).header.timestamp + late,
                   <<"v", "1">>, txs)) :
      h \in {x \in 1..MaxHeight : (x - 1) \in DOMAIN blocksByHeight},
      late \in {0, 1},
      txs \in TxLists }

TimelyBlocks ==
  { b \in ExtendingBlocks :
      \/ b.header.timestamp > GetBlockByHeight(b.header.height - 1).header.timestamp
      \/ b.transactions = <<FundAlice>> }

\* genesis-shaped blocks of any validator
GenesisShapedBlocks ==
  { Sealed(MkBlock(0, ZeroHash, ZeroHash, 1, va, << >>)) : va \in ValidatorAddresses }

\* genesis-shaped blocks placed at a height above 0
MisplacedGenesisBlocks ==
  { Sealed(MkBlock(h, ZeroHash, ZeroHash, h + 1, va, << >>)) :
      h \in 1..MaxHeight, va \in ValidatorAddresses }

\* blocks whose previousHash is not the hash indexed at the height below
DanglingBlocks ==
  { Sealed(MkBlock(h, p, CalculateMerkleRoot(<<FundAlice>>), h + 1,
                   <<"v", "1">>, <<FundAlice>>)) :
      h \in 1..MaxHeight,
      p \in {ZeroHash, BogusHash} \cup DOMAIN blocks }

\* blocks with a stored hash or a Merkle root that does not match
CorruptedBlocks ==
  LET base == { b \in ExtendingBlocks :
                  /\ b.transactions = <<FundAlice>>
                  /\ b.header.timestamp >
                       GetBlockByHeight(b.header.height - 1).header.timestamp }
  IN { [b EXCEPT !.hash = BogusHash] : b \in base } \cup
     { [b EXCEPT !.hash = EmptyString] : b \in base } \cup
     { Sealed([b EXCEPT !.header.merkleRoot = BogusHash]) : b \in base }

CandidateBlocks ==
  TimelyBlocks \cup GenesisShapedBlocks \cup MisplacedGenesisBlocks
  \cup DanglingBlocks \cup CorruptedBlocks

IndexedBlocks == { blocks[h] : h \in DOMAIN blocks }

(***************************************************************************)
(* Ledger actions                                                          *)
(***************************************************************************)
\* BlockchainService.onModuleInit / initialize
Initialize ==
  /\ ~initDone
  /\ \E genesisBlock \in GenesisBlocks :
       \E a \in {IF Cardinality(DOMAIN blocks) > 0 THEN Unchanged("false")
                ELSE AddBlockResult(genesisBlock)},
          s \in {StateInitialize(genesisBlock)} :
          /\ blocks' = a.blocks
          /\ blocksByHeight' = a.blocksByHeight
          /\ chainHeight' = a.chainHeight
          /\ lastBlockHash' = a.lastBlockHash
          /\ balances' = s.st.balances
          /\ validators' = s.st.validators
          /\ nonces' = s.st.nonces
          /\ stateChainHeight' = s.st.chainHeight
          /\ stateLastBlockHash' = s.lastBlockHash
          /\ initialized' = s.ok
          /\ initDone' = TRUE
          /\ lastOp' = [op |-> "initialize", block |-> genesisBlock,
                        result |-> a.result, events |-> a.events \o s.st.events]
  /\ UNCHANGED <<calls, consensusVars, libraryVars, p2pVars, mempoolVars>>

\* BlockchainService.addBlock(block), with StateManager.applyBlock
AddBlock(block) ==
  /\ initDone
  /\ block.hash \in DOMAIN blocks \/ Cardinality(DOMAIN blocks) < MaxBlocks
  /\ \E r \in {AddBlockResult(block)} :
        /\ blocks' = r.blocks
        /\ blocksByHeight' = r.blocksByHeight
        /\ chainHeight' = r.chainHeight
        /\ lastBlockHash' = r.lastBlockHash
        /\ balances' = r.st.balances
        /\ validators' = r.st.validators
        /\ nonces' = r.st.nonces
        /\ stateChainHeight' = r.st.chainHeight
        /\ stateLastBlockHash' = r.stateLastBlockHash
        /\ lastOp' = [op |-> "addBlock", block |-> block,
                      result |-> r.result, events |-> r.events]
  /\ UNCHANGED <<initialized, initDone, calls, consensusVars, libraryVars, p2pVars, mempoolVars>>

\* BlockchainService.getLatestBlocks(limit)
GetLatestBlocksCall(limit) ==
  /\ initDone
  /\ lastOp' = [op |-> "getLatestBlocks", limit |-> limit,
                returned |-> GetLatestBlocks(limit)]
  /\ UNCHANGED <<ledgerVars, stateVars, consensusVars, libraryVars, p2pVars, mempoolVars>>

\* StateManager.applyTransaction(tx) on its own, from any balances
ApplyAccounts == {"alice", "bob", SystemAddress}
ApplyBalances == {0, 100, 116}
ApplyInputs ==
  { Tx(<<"x">>, "TRANSFER", from, to, amount, fee, nonce, 0) :
      from \in ApplyAccounts, to \in ApplyAccounts, amount \in {0, 100},
      fee \in {0, 16}, nonce \in {0, 2} } \cup
  { Tx(<<"x">>, type, from, to, 100, 0, 0, 0) :
      type \in {"MINT", "REWARD"}, from \in {SystemAddress, "alice"},
      to \in ApplyAccounts } \cup
  { Tx(<<"x">>, "BURN", from, "", amount, fee, 0, 0) :
      from \in ApplyAccounts, amount \in {0, 100}, fee \in {0, 16} } \cup
  { Tx(<<"x">>, "VALIDATOR_REGISTRATION", from, "", 0, fee, 0, stake) :
      from \in ApplyAccounts, fee \in {0, 16}, stake \in {0, 100} } \cup
  { Tx(<<"x">>, "STAKE", "alice", "bob", 100, 16, 0, 0) }

\* the nonces map before the call: empty, or with an entry of the account
\* "alice" left by earlier transactions
ApplyNonces == {EmptyMap} \cup {MapSet(EmptyMap, "alice", n) : n \in {1, 5}}

ApplyTransactionStep(tx) ==
  /\ lastOp.op = "none"
  /\ \E r \in {ApplyTransaction(CurrentState, tx)} :
        /\ balances' = r.st.balances
        /\ validators' = r.st.validators
        /\ nonces' = r.st.nonces
        /\ lastOp' = [op |-> "applyTransaction", tx |-> tx, ok |-> r.ok,
                      events |-> r.st.events]
  /\ UNCHANGED <<stateChainHeight, stateLastBlockHash, ledgerVars, consensusVars, libraryVars, p2pVars, mempoolVars>>

(***************************************************************************)
(* Blockchain (libs/features/currency/src/lib/converter.ts)                *)
(***************************************************************************)
MaxChainLength == 3   \* blocks of the chain, the genesis block included
MaxMempoolLength == 2 \* transactions waiting in the mempool of the class

\* CryptoUtils.doubleHash of the serialized header, transactions and nonce
\* (collision-free)
DoubleHash(header, transactions, nonce) == <<"doubleHash", header, transactions, nonce>>

\* Blockchain.calculateBlockHash(block)
BlockchainCalculateBlockHash(block) ==
  DoubleHash(block.header, block.transactions, block.nonce)

\* Blockchain.calculateMerkleRoot(transactions)
BlockchainCalculateMerkleRoot(transactions) ==
  IF Len(transactions) = 0 THEN << >> ELSE <<"merkleRoot", transactions>>

\* a block as laid out by createGenesisBlock and createBlock, with its hash
BlockchainBlock(previousHash, merkleRoot, timestamp, height, validatorAddress, transactions) ==
  LET newBlock ==
        [header |-> [version |-> 1, previousHash |-> previousHash,
                     merkleRoot |-> merkleRoot, timestamp |-> timestamp,
                     height |-> height, validatorAddress |-> validatorAddress],
         transactions |-> transactions, hash |-> <<"0">>, nonce |-> 0]
  IN [newBlock EXCEPT !.hash = BlockchainCalculateBlockHash(newBlock)]

\* createGenesisBlock()
BlockchainGenesisBlock == BlockchainBlock(<<"0">>, <<"0">>, 0, 0, "GENESIS", << >>)

\* state.balances.get(address) || 0n
BlockchainBalance(held, address) == MapGet(held, address, 0)

\* validateTransaction(transaction)
BlockchainValidateTransaction(held, transaction) ==
  IF transaction.from = "SYSTEM" THEN TRUE
  ELSE IF transaction.signature = "" THEN FALSE
  ELSE ~(BlockchainBalance(held, transaction.from)
           < transaction.amount + transaction.fee)

\* processTransaction(tx): the held after the debit of the sender, the
\* credit of the recipient and the credit of the fee
ProcessTransaction(held, tx) ==
  LET debited == IF tx.from # "SYSTEM"
                 THEN MapSet(held, tx.from,
                             BlockchainBalance(held, tx.from) - tx.amount - tx.fee)
                 ELSE held
      credited == MapSet(debited, tx.to, BlockchainBalance(debited, tx.to) + tx.amount)
  IN IF tx.fee > 0
     THEN MapSet(credited, tx.from, BlockchainBalance(credited, tx.from) + tx.fee)
     ELSE credited

RECURSIVE ProcessTransactions(_, _)
\* updateState: the loop over block.transactions
ProcessTransactions(held, transactions) ==
  IF transactions = << >> THEN held
  ELSE ProcessTransactions(ProcessTransaction(held, Head(transactions)),
                           Tail(transactions))

\* updateState(block)
UpdateState(st, block) ==
  [height |-> block.header.height, lastBlockHash |-> block.hash,
   balances |-> ProcessTransactions(st.balances, block.transactions)]

\* validateBlock(block)
BlockchainValidateBlock(ch, st, block) ==
  /\ block.header.previousHash = ch[Len(ch)].hash
  /\ block.header.height = ch[Len(ch)].header.height + 1
  /\ BlockchainCalculateBlockHash(block) = block.hash
  /\ \A i \in DOMAIN block.transactions :
       BlockchainValidateTransaction(st.balances, block.transactions[i])
  /\ BlockchainCalculateMerkleRoot(block.transactions) = block.header.merkleRoot

\* createBlock(validatorAddress): the block built from the mempool on the
\* last block of the chain
CreatedBlock(ch, transactions, validatorAddress, now) ==
  BlockchainBlock(ch[Len(ch)].hash, BlockchainCalculateMerkleRoot(transactions), now,
                  ch[Len(ch)].header.height + 1, validatorAddress, transactions)

\* transactions offered to the class: two rewards from 'SYSTEM', one of them
\* with a fee, two signed transfers of alice and an unsigned transfer of bob
BlockchainTx(id, from, to, amount, fee, type, signature) ==
  [id |-> id, from |-> from, to |-> to, amount |-> amount, fee |-> fee, type |-> type,
   signature |-> signature]
BlockchainTransactions ==
  { BlockchainTx("1", "SYSTEM", "alice", 100, 0, "REWARD", ""),
    BlockchainTx("2", "SYSTEM", "bob", 50, 5, "REWARD", ""),
    BlockchainTx("3", "alice", "bob", 100, 0, "TRANSFER", "sig"),
    BlockchainTx("4", "alice", "carol", 60, 10, "TRANSFER", "sig"),
    BlockchainTx("5", "bob", "alice", 10, 0, "TRANSFER", "") }

\* blocks offered to addBlock: the blocks createBlock returns for a mempool
\* of up to MaxMempoolLength transactions, and a block on the genesis hash
BlockchainTxLists ==
  {<<a>> : a \in BlockchainTransactions}
    \cup {<<a, b>> : a \in BlockchainTransactions, b \in BlockchainTransactions}
OfferedBlocks(ch, now) ==
  {CreatedBlock(ch, transactions, "CHKvalidator1", now) : transactions \in BlockchainTxLists}
    \cup {CreatedBlock(<<BlockchainGenesisBlock>>, <<>>, "CHKvalidator1", now)}

(***************************************************************************)
(* Initial states                                                          *)
(***************************************************************************)
InitLedgerVars ==
  /\ blocks = EmptyMap
  /\ blocksByHeight = EmptyMap
  /\ lastBlockHash = Undefined
  /\ chainHeight = 0
  /\ initialized = FALSE
  /\ initDone = FALSE
  /\ calls = << >>

InitStateVars ==
  /\ balances = EmptyMap
  /\ validators = EmptyMap
  /\ nonces = EmptyMap
  /\ stateChainHeight = 0
  /\ stateLastBlockHash = Undefined

InitConsensusVars ==
  /\ currentValidators = EmptyMap
  /\ pendingValidators = EmptyMap
  /\ lastRotationBlock = 0
  /\ currentProposer = ""
  /\ round = 0
  /\ votes = EmptyMap
  /\ finalizedCalls = EmptyMap

InitP2PVars ==
  /\ peers = EmptyMap
  /\ connections = EmptyMap
  /\ sockets = << >>
  /\ clock = 0
  /\ server = "listening"
  /\ intervals = {"pingPeers", "cleanupStalePeers", "discoverPeers"}

InitMempoolVars ==
  /\ pendingTransactions = << >>
  /\ transactionsByAccount = EmptyMap

\* new Blockchain(): the genesis block, no balance, an empty mempool
InitLibraryVars ==
  /\ chain = <<BlockchainGenesisBlock>>
  /\ state = [height |-> 0, lastBlockHash |-> BlockchainGenesisBlock.hash,
              balances |-> EmptyMap]
  /\ mempool = << >>

NoOp == [op |-> "none"]

\* the ledger after construction of BlockchainService and StateManager
InitLedger ==
  InitLedgerVars /\ InitStateVars /\ InitConsensusVars /\ InitP2PVars /\ InitMempoolVars /\ InitLibraryVars /\ lastOp = NoOp

NextLedger ==
  \/ Initialize
  \/ \E block \in CandidateBlocks : AddBlock(block)
  \/ \E limit \in 0..MaxLimit : GetLatestBlocksCall(limit)

SpecLedger == InitLedger /\ [][NextLedger]_vars

\* StateManager with arbitrary balances, applying single transactions
InitApply ==
  /\ InitLedgerVars /\ InitConsensusVars /\ InitP2PVars /\ InitMempoolVars /\ InitLibraryVars /\ lastOp = NoOp
  /\ balances \in [ApplyAccounts -> ApplyBalances]
  /\ validators = EmptyMap
  /\ nonces \in ApplyNonces
  /\ stateChainHeight = 0
  /\ stateLastBlockHash = Undefined

NextApply == \E tx \in ApplyInputs : ApplyTransactionStep(tx)

SpecApply == InitApply /\ [][NextApply]_vars

(***************************************************************************)
(* addBlock calls that overlap.  An async function runs until its next     *)
(* await and is resumed later; between the two, other calls run.  The      *)
(* awaits of addBlock are those of applyTransaction (on the type-specific  *)
(* step), of applyBlock (on applyTransaction) and of addBlock (on          *)
(* applyBlock).                                                            *)
(***************************************************************************)
\* a call: its block, the number of transactions whose type-specific step has
\* run, the await it is suspended at ("done" once settled) and its outcome
Call(block, applied, pc, result) ==
  [block |-> block, applied |-> applied, pc |-> pc, result |-> result]

OverlapTxLists == { <<FundAlice, RewardBob>>, <<AliceBurns>>, <<RewardBob>>, << >> }

\* blocks that extend the block indexed at the height below
OverlapBlocks ==
  { Sealed(MkBlock(h, blocksByHeight[h - 1], CalculateMerkleRoot(txs),
                   GetBlockByHeight(h - 1).header.timestamp + 1, <<"v", "1">>, txs)) :
      h \in {x \in 1..MaxHeight : (x - 1) \in DOMAIN blocksByHeight},
      txs \in OverlapTxLists }

\* the type-specific step of transaction number i of the call's block, run up
\* to the await of applyTransaction; a throw settles the call
StepTransaction(block, i, r) ==
  /\ balances' = r.st.balances
  /\ validators' = r.st.validators
  /\ UNCHANGED <<nonces, stateChainHeight, stateLastBlockHash>>

\* applyBlock after its loop: "Update chain height and last block hash"
StepBlockApplied(block) ==
  /\ stateChainHeight' = block.header.height
  /\ stateLastBlockHash' = block.hash
  /\ UNCHANGED <<balances, validators, nonces>>

\* addBlock(block) from its start to its first await, or to its return
StartAddBlock(block) ==
  /\ initDone
  /\ Len(calls) < MaxCalls
  /\ IF block.hash \in DOMAIN blocks \/ ~ValidateBlock(block)
     THEN /\ calls' = Append(calls, Call(block, 0, "done", "false"))
          /\ UNCHANGED <<blocks, blocksByHeight, chainHeight, lastBlockHash, stateVars>>
     ELSE /\ blocks' = MapSet(blocks, block.hash, block)
          /\ blocksByHeight' = MapSet(blocksByHeight, block.header.height, block.hash)
          /\ IF block.header.height > chainHeight
             THEN /\ chainHeight' = block.header.height
                  /\ lastBlockHash' = block.hash
                  /\ IF block.transactions = << >>
                     THEN /\ StepBlockApplied(block)
                          /\ calls' = Append(calls, Call(block, 0, "addBlock", "pending"))
                     ELSE \E r \in {ApplyByType(CurrentState, block.transactions[1])} :
                            /\ StepTransaction(block, 1, r)
                            /\ calls' = Append(calls,
                                 IF r.ok THEN Call(block, 1, "applyTransaction", "pending")
                                 ELSE Call(block, 0, "done", "throw"))
             ELSE /\ calls' = Append(calls, Call(block, 0, "done", "true"))
                  /\ UNCHANGED <<chainHeight, lastBlockHash, stateVars>>
  /\ lastOp' = [op |-> "addBlock.start", block |-> block]
  /\ UNCHANGED <<initialized, initDone, consensusVars, libraryVars, p2pVars, mempoolVars>>

\* the call number c resumes after the await it is suspended at and runs to
\* its next await, or to its return
ResumeAddBlock(c) ==
  /\ c \in 1..Len(calls)
  /\ calls[c].pc # "done"
  /\ \E block \in {calls[c].block}, applied \in {calls[c].applied} :
       CASE calls[c].pc = "applyTransaction" ->
              \* "Update nonce for sender", then applyTransaction returns
              /\ nonces' = UpdateNonce(Returned(CurrentState),
                                       block.transactions[applied]).st.nonces
              /\ calls' = [calls EXCEPT ![c].pc = "applyBlock"]
              /\ UNCHANGED <<balances, validators, stateChainHeight, stateLastBlockHash>>
         [] calls[c].pc = "applyBlock" ->
              \* the next iteration of the loop of applyBlock, or its end
              IF applied < Len(block.transactions)
              THEN \E r \in {ApplyByType(CurrentState, block.transactions[applied + 1])} :
                     /\ StepTransaction(block, applied + 1, r)
                     /\ calls' = [calls EXCEPT ![c] =
                          IF r.ok THEN Call(block, applied + 1, "applyTransaction", "pending")
                          ELSE Call(block, applied, "done", "throw")]
              ELSE /\ StepBlockApplied(block)
                   /\ calls' = [calls EXCEPT ![c].pc = "addBlock"]
         [] calls[c].pc = "addBlock" ->
              \* the events are emitted and addBlock returns true
              /\ calls' = [calls EXCEPT ![c] = Call(block, applied, "done", "true")]
              /\ UNCHANGED stateVars
  /\ lastOp' = [op |-> "addBlock.resume", call |-> c]
  /\ UNCHANGED <<blocks, blocksByHeight, lastBlockHash, chainHeight, initialized, initDone,
                 consensusVars, libraryVars, p2pVars, mempoolVars>>

NextOverlap ==
  \/ Initialize
  \/ \E block \in OverlapBlocks : StartAddBlock(block)
  \/ \E c \in 1..MaxCalls : ResumeAddBlock(c)

SpecOverlap == InitLedger /\ [][NextOverlap]_vars

(***************************************************************************)
(* Properties of the ledger (SpecLedger, SpecApply)                        *)
(***************************************************************************)
LedgerAndAccountState ==
  <<blocks, blocksByHeight, chainHeight, lastBlockHash, balances, nonces, validators>>

\* C1: block application is all-or-nothing: when a transaction of the block
\* fails during the state transition, addBlock leaves the balances, nonces,
\* validator registry, both block indexes and the chain head as they were.
BlockApplicationAllOrNothing ==
  [][(lastOp'.op = "addBlock" /\ lastOp'.result = "throw")
       => UNCHANGED LedgerAndAccountState]_vars

\* C5: addBlock is idempotent: called with a block whose hash is already
\* indexed it returns false, changes neither index, the chain head nor any
\* account state, and emits no event.
AddBlockIdempotent ==
  [][(lastOp'.op = "addBlock" /\ lastOp'.block.hash \in DOMAIN blocks)
       => /\ lastOp'.result = "false"
          /\ lastOp'.events = << >>
          /\ UNCHANGED <<LedgerAndAccountState, stateChainHeight, stateLastBlockHash>>]_vars

\* a second addBlock of the block at the chain head has just returned false
AddBlockIdempotentWitness ==
  /\ lastOp.op = "addBlock"
  /\ lastOp.result = "false"
  /\ lastOp.block.hash \in DOMAIN blocks
  /\ lastOp.block.hash = lastBlockHash
  /\ lastOp.block.transactions # << >>

\* C6: a TRANSFER is applied iff the sender holds at least amount + fee; then
\* the sender loses amount + fee, the recipient gains amount and the system
\* account gains fee (the effects add up when the accounts coincide);
\* otherwise no balance changes.
TransferSemantics ==
  [][(lastOp'.op = "applyTransaction" /\ lastOp'.tx.type = "TRANSFER")
       => LET tx == lastOp'.tx
              totalDebit == tx.amount + tx.fee
              delta(a) == (IF a = tx.to THEN tx.amount ELSE 0)
                          + (IF a = SystemAddress THEN tx.fee ELSE 0)
                          - (IF a = tx.from THEN totalDebit ELSE 0)
          IN IF GetBalance(balances, tx.from) >= totalDebit
             THEN /\ lastOp'.ok
                  /\ \A a \in ApplyAccounts \cup DOMAIN balances' :
                       GetBalance(balances', a) = GetBalance(balances, a) + delta(a)
             ELSE /\ ~lastOp'.ok
                  /\ balances' = balances]_vars

\* a sender that held 116 has transferred 100 with fee 16 to another account
TransferSemanticsWitness ==
  /\ lastOp.op = "applyTransaction"
  /\ lastOp.tx.type = "TRANSFER"
  /\ lastOp.ok
  /\ lastOp.tx.amount = 100 /\ lastOp.tx.fee = 16
  /\ lastOp.tx.from \notin {lastOp.tx.to, SystemAddress}
  /\ GetBalance(balances, lastOp.tx.from) = 0
  /\ GetBalance(balances, lastOp.tx.to) >= 100
  /\ GetBalance(balances, SystemAddress) >= 16

\* C29: a transaction that applies and whose sender is not the system address
\* leaves the sender's nonce at max(previous nonce, tx.nonce + 1) and every
\* other nonce as it was, so that no nonce decreases; a transaction of the
\* system sender and a transaction that fails change no nonce.
NonceAdvancesToMax ==
  [][lastOp'.op = "applyTransaction"
       => LET tx == lastOp'.tx
          IN /\ \A a \in DOMAIN nonces :
                  a \in DOMAIN nonces' /\ nonces'[a] >= nonces[a]
             /\ IF lastOp'.ok /\ tx.from # SystemAddress
                THEN /\ GetNonce(nonces', tx.from)
                          = Max(GetNonce(nonces, tx.from), tx.nonce + 1)
                     /\ \A a \in (DOMAIN nonces \cup DOMAIN nonces') \ {tx.from} :
                          GetNonce(nonces', a) = GetNonce(nonces, a)
                ELSE nonces' = nonces]_vars

\* an account whose nonce was 5 has sent a transaction with nonce 2 that
\* applied, and its nonce is still 5
NonceAdvancesWitness ==
  /\ lastOp.op = "applyTransaction"
  /\ lastOp.ok
  /\ lastOp.tx.from = "alice"
  /\ lastOp.tx.nonce = 2
  /\ GetNonce(nonces, "alice") = 5

\* C30: an applied TRANSFER leaves the sum of all balances unchanged, an
\* applied MINT or REWARD raises it by amount, an applied BURN lowers it by
\* amount, an applied VALIDATOR_REGISTRATION lowers it by the stake, and a
\* transaction that is rejected leaves it unchanged.
SupplyAccounting ==
  [][lastOp'.op = "applyTransaction"
       => LET tx == lastOp'.tx
              change == GetTotalSupply(balances') - GetTotalSupply(balances)
          IN IF ~lastOp'.ok THEN change = 0
             ELSE CASE tx.type = "TRANSFER" -> change = 0
                    [] tx.type \in {"MINT", "REWARD"} -> change = tx.amount
                    [] tx.type = "BURN" -> change = 0 - tx.amount
                    [] tx.type = "VALIDATOR_REGISTRATION" -> change = 0 - tx.stake
                    [] OTHER -> FALSE]_vars

\* a BURN of 100 with fee 16 has applied: the sender is not the system
\* account, which holds the fee
SupplyAccountingWitness ==
  /\ lastOp.op = "applyTransaction"
  /\ lastOp.ok
  /\ lastOp.tx.type = "BURN"
  /\ lastOp.tx.amount = 100 /\ lastOp.tx.fee = 16
  /\ lastOp.tx.from # SystemAddress
  /\ GetBalance(balances, SystemAddress) >= 16

\* C9: the genesis exemption is limited to height 0: a genesis-shaped block
\* (height 0, previousHash all-zero, matching hash) validates for any
\* validatorAddress, with or without an indexed block; a block of height 1
\* with the all-zero previousHash never validates.
GenesisExemptionOnlyAtHeightZero ==
  /\ \A b \in GenesisShapedBlocks : ValidateBlock(b)
  /\ \A b \in CandidateBlocks \cup IndexedBlocks :
       (b.header.height = 1 /\ b.header.previousHash = ZeroHash) => ~ValidateBlock(b)

\* a genesis-shaped block of height 1 has been refused while the index holds
\* a genesis block of another validator
GenesisExemptionWitness ==
  /\ lastOp.op = "addBlock"
  /\ lastOp.result = "false"
  /\ lastOp.block \in MisplacedGenesisBlocks
  /\ lastOp.block.header.height = 1
  /\ lastOp.block.hash \notin DOMAIN blocks
  /\ 0 \in DOMAIN blocksByHeight
  /\ \E g \in IndexedBlocks :
       g.header.height = 0 /\ g.header.validatorAddress = <<"v", "2">>

\* C10: a block of height > 0 does not validate when no block is indexed at
\* height-1, when that block's hash is not the block's previousHash, when the
\* timestamp is not above that block's, when the recomputed Merkle root
\* differs from the header's or when the recomputed hash differs from the
\* stored one.
BrokenLink(b) ==
  \/ (b.header.height - 1) \notin DOMAIN blocksByHeight
  \/ blocks[blocksByHeight[b.header.height - 1]].hash # b.header.previousHash
  \/ b.header.timestamp <= blocks[blocksByHeight[b.header.height - 1]].header.timestamp
  \/ CalculateMerkleRoot(b.transactions) # b.header.merkleRoot
  \/ CalculateBlockHash(b) # b.hash

ValidateBlockRejectsBrokenLinks ==
  \A b \in CandidateBlocks \cup IndexedBlocks :
    (b.header.height > 0 /\ BrokenLink(b)) => ~ValidateBlock(b)

\* a block that is sound except for a timestamp equal to its predecessor's
\* has been refused
ValidateBlockRejectsWitness ==
  /\ lastOp.op = "addBlock"
  /\ lastOp.result = "false"
  /\ lastOp.block.hash \notin DOMAIN blocks
  /\ lastOp.block.header.height > 0
  /\ (lastOp.block.header.height - 1) \in DOMAIN blocksByHeight
  /\ blocksByHeight[lastOp.block.header.height - 1] = lastOp.block.header.previousHash
  /\ CalculateMerkleRoot(lastOp.block.transactions) = lastOp.block.header.merkleRoot
  /\ CalculateBlockHash(lastOp.block) = lastOp.block.hash
  /\ lastOp.block.header.timestamp =
       blocks[lastOp.block.header.previousHash].header.timestamp

\* C11: validateBlock returns false whenever a transaction of the block fails
\* individual transaction validation (nonce below the sender's nonce, or
\* sender balance below amount + fee + stake), so addBlock neither indexes
\* nor applies such a block.
InvalidTransactionBlocksRejected ==
  [][(/\ lastOp'.op = "addBlock"
      /\ \E i \in DOMAIN lastOp'.block.transactions :
            ~StateValidateTransaction(lastOp'.block.transactions[i]))
       => /\ ~ValidateBlock(lastOp'.block)
          /\ lastOp'.result = "false"
          /\ UNCHANGED LedgerAndAccountState]_vars

\* all transactions of the list applied in order, none of them failing
RECURSIVE AppliedInOrder(_, _, _)
AppliedInOrder(st, txs, after) ==
  IF txs = << >>
  THEN /\ after.balances = st.balances
       /\ after.nonces = st.nonces
       /\ after.validators = st.validators
  ELSE /\ ApplyTransaction(st, Head(txs)).ok
       /\ AppliedInOrder(ApplyTransaction(st, Head(txs)).st, Tail(txs), after)

\* C16: a valid, not yet indexed block whose height does not exceed the chain
\* height is indexed by hash and by height and changes neither the chain head
\* nor any balance, nonce or validator entry; a valid block above the chain
\* height becomes the chain head and all its transactions are applied in
\* order.
LowBlocksIndexedHighBlocksApplied ==
  [][(/\ lastOp'.op = "addBlock"
      /\ lastOp'.block.hash \notin DOMAIN blocks
      /\ ValidateBlock(lastOp'.block))
       => /\ lastOp'.block.hash \in DOMAIN blocks'
          /\ blocks'[lastOp'.block.hash] = lastOp'.block
          /\ blocksByHeight'[lastOp'.block.header.height] = lastOp'.block.hash
          /\ IF lastOp'.block.header.height > chainHeight
             THEN /\ chainHeight' = lastOp'.block.header.height
                  /\ lastBlockHash' = lastOp'.block.hash
                  /\ AppliedInOrder(CurrentState, lastOp'.block.transactions,
                                    [balances |-> balances', nonces |-> nonces',
                                     validators |-> validators'])
             ELSE UNCHANGED <<chainHeight, lastBlockHash, balances, nonces,
                              validators>>]_vars

\* the hash of the header fields and the nonce, in the order version,
\* previousHash, merkleRoot, timestamp, height, validatorAddress, nonce
RecomputedHash(b) ==
  Sha256(NumToString(b.header.version) \o b.header.previousHash \o b.header.merkleRoot
           \o NumToString(b.header.timestamp) \o NumToString(b.header.height)
           \o b.header.validatorAddress \o NumToString(b.nonce))

\* C17: every block held in the block index is indexed under its stored hash,
\* and that hash is the one recomputed from its header fields and nonce.
IndexedBlocksHashToThemselves ==
  \A h \in DOMAIN blocks : blocks[h].hash = h /\ RecomputedHash(blocks[h]) = h

\* the index holds the genesis block and a successor, and a block whose stored
\* hash matches no header has just been refused
IndexedBlocksHashWitness ==
  /\ lastOp.op = "addBlock"
  /\ lastOp.block.hash = BogusHash
  /\ lastOp.result = "false"
  /\ Cardinality(DOMAIN blocks) >= 2

\* the calls that have returned true
Completed(c) == calls[c].pc = "done" /\ calls[c].result = "true"

\* the block of the greatest height among the calls' blocks
HigherBlock ==
  CHOOSE b \in {calls[c].block : c \in 1..Len(calls)} :
    \A c \in 1..Len(calls) : calls[c].block.header.height <= b.header.height

\* C26: addBlock calls are atomic with respect to each other: a call that
\* started later has applied no transaction while an earlier call (one that
\* does not throw) has transactions left to apply, and once two calls for
\* blocks of different heights have both returned true, the chain head of
\* BlockchainService and the height and last hash of StateManager are those
\* of the higher block.
AddBlockCallsAtomic ==
  /\ \A c, d \in 1..Len(calls) :
       (c < d /\ calls[d].applied > 0 /\ calls[c].result # "throw")
         => calls[c].applied = Len(calls[c].block.transactions)
  /\ (/\ Len(calls) = 2
      /\ Completed(1) /\ Completed(2)
      /\ calls[1].block.header.height # calls[2].block.header.height)
       => /\ chainHeight = HigherBlock.header.height
          /\ lastBlockHash = HigherBlock.hash
          /\ stateChainHeight = HigherBlock.header.height
          /\ stateLastBlockHash = HigherBlock.hash

\* the account state that results from applying the transactions of the blocks
\* indexed at the heights h..top, in height order, to the state st
RECURSIVE ApplyHeights(_, _, _)
ApplyHeights(st, h, top) ==
  IF h > top \/ ~HasBlockAtHeight(h) THEN st
  ELSE ApplyHeights(ApplyTransactions(st, GetBlockByHeight(h).transactions).st, h + 1, top)

\* the state after the genesis transactions
GenesisState == ApplyTransactions(ClearedState, DefaultGenesisBlock.transactions).st

\* C34: the by-height index describes one linked chain: the block indexed at a
\* height h > 0 names the hash indexed at h - 1 as its previousHash and has a
\* greater timestamp than that block, and the balances and nonces are those
\* obtained by applying the transactions of the blocks indexed at the heights
\* 1..chainHeight, in height order, to the genesis state.
IndexIsOneLinkedChain ==
  (initialized /\ HasBlockAtHeight(0))
    => /\ \A h \in DOMAIN blocksByHeight \ {0} :
            /\ HasBlockAtHeight(h - 1)
            /\ GetBlockByHeight(h).header.previousHash = blocksByHeight[h - 1]
            /\ GetBlockByHeight(h).header.timestamp
                 > GetBlockByHeight(h - 1).header.timestamp
       /\ balances = ApplyHeights(GenesisState, 1, chainHeight).balances
       /\ nonces = ApplyHeights(GenesisState, 1, chainHeight).nonces

\* C35: chainHeight never decreases and grows by at most 1 in a step, and once
\* a block is indexed at height 0 the indexed heights are exactly
\* 0..chainHeight.
ChainHeightContiguous ==
  [][/\ chainHeight' >= chainHeight
     /\ chainHeight' <= chainHeight + 1
     /\ HasBlockAtHeight(0)' => DOMAIN blocksByHeight' = 0..chainHeight']_vars

\* a block of height 2 has been added on a chain of height 1, and the index
\* holds the heights 0, 1 and 2
ChainHeightContiguousWitness ==
  /\ lastOp.op = "addBlock"
  /\ lastOp.block.header.height = 2
  /\ lastOp.result = "true"
  /\ chainHeight = 2
  /\ DOMAIN blocksByHeight = {0, 1, 2}

Min(a, b) == IF a <= b THEN a ELSE b

\* C25: getLatestBlocks(n) on a chain that holds its genesis block returns
\* the n highest blocks, or all chainHeight + 1 blocks (genesis included) when
\* n exceeds their number, in strictly descending height from the chain head.
LatestBlocksFromHead ==
  [][(lastOp'.op = "getLatestBlocks" /\ HasBlockAtHeight(0))
       => /\ Len(lastOp'.returned) = Min(lastOp'.limit, chainHeight + 1)
          /\ \A i \in 1..Len(lastOp'.returned) :
                /\ lastOp'.returned[i].header.height = chainHeight + 1 - i
                /\ lastOp'.returned[i] = GetBlockByHeight(chainHeight + 1 - i)]_vars

(***************************************************************************)
(* ConsensusEngine (libs/core/consensus)                                   *)
(***************************************************************************)
\* ConsensusConfig of the engine.  Ratios are in percent and the consensus
\* threshold in 1/10000, so that the comparisons are made on integers; for
\* the validator counts of this model the quotients the code compares as
\* doubles are separated from the thresholds by far more than a rounding
\* error, except 3/5 against 0.5 + 0.1, which are the same double.
MaxValidators == 6                  \* config.maxValidators (scaled)
GovernmentValidatorRatio == 50      \* config.governmentValidatorRatio, percent
CitizenValidatorRatio == 50         \* config.citizenValidatorRatio, percent
RatioDeviation == 10                \* "+ 0.1", percent
RequiredConsensus == 6600           \* config.requiredConsensus, 1/10000
Epsilon == 1                        \* epsilon = 0.0001, 1/10000
ValidatorRotationInterval == 100    \* config.validatorRotationInterval
InactivityLimit == 100              \* currentHeight - lastActiveBlock > 100
MaxRound == 2                       \* finalizations followed by the model

Validator(address, type, votingPower, active) ==
  [address |-> address, type |-> type, votingPower |-> votingPower,
   active |-> active, lastActiveBlock |-> 0]

\* the genesis validators, in the order they are handed to initializeGenesis
GenesisValidators ==
  << Validator("GOV1", "GOVERNMENT", 1, TRUE), Validator("GOV2", "GOVERNMENT", 1, TRUE),
     Validator("CIT1", "CITIZEN", 1, TRUE), Validator("CIT2", "CITIZEN", 1, TRUE) >>

GenesisLists == { SubSeq(GenesisValidators, 1, n) : n \in 0..Len(GenesisValidators) }

\* validators offered to addValidator: two citizens (the second one inactive)
\* and GOV1 registering again with more voting power
Candidates ==
  { Validator("CIT3", "CITIZEN", 1, TRUE), Validator("CIT4", "CITIZEN", 1, FALSE),
    Validator("GOV1", "GOVERNMENT", 2, TRUE) }

\* a.address.localeCompare(b.address) on the addresses in use
AddressOrder == <<"CIT1", "CIT2", "CIT3", "CIT4", "GOV1", "GOV2">>

Block(hash, height) == [hash |-> hash, header |-> [height |-> height]]

\* blocks voted on: two conflicting blocks at height 1, one at the rotation
\* interval and one beyond the inactivity limit
VoteBlocks ==
  { Block("block1", 1), Block("block1x", 1), Block("block100", 100),
    Block("block201", 201) }

CountType(m, type) == Cardinality({ a \in DOMAIN m : m[a].type = type })

\* faulty variant: the ratios are taken over the current validators only
AddValidatorAccepts_CurrentOnly(validator) ==
  LET totalValidators == Cardinality(DOMAIN currentValidators)
                           + Cardinality(DOMAIN pendingValidators)
      govCount == CountType(currentValidators, "GOVERNMENT")
                    + (IF validator.type = "GOVERNMENT" THEN 1 ELSE 0)
      citizenCount == (Cardinality(DOMAIN currentValidators)
                         - CountType(currentValidators, "GOVERNMENT"))
                        + (IF validator.type = "GOVERNMENT" THEN 0 ELSE 1)
      total == govCount + citizenCount
  IN /\ ~(totalValidators >= MaxValidators)
     /\ ~(validator.type = "GOVERNMENT"
            /\ govCount * 100 > (GovernmentValidatorRatio + RatioDeviation) * total)
     /\ ~(validator.type = "CITIZEN"
            /\ citizenCount * 100 > (CitizenValidatorRatio + RatioDeviation) * total)

\* faulty variant: the limit of maxValidators is not checked
AddValidatorAccepts_NoLimit(validator) ==
  LET totalValidators == Cardinality(DOMAIN currentValidators)
                           + Cardinality(DOMAIN pendingValidators)
      govCount == CountType(currentValidators, "GOVERNMENT")
                    + CountType(pendingValidators, "GOVERNMENT")
                    + (IF validator.type = "GOVERNMENT" THEN 1 ELSE 0)
      citizenCount == (totalValidators
                         - CountType(currentValidators, "GOVERNMENT")
                         - CountType(pendingValidators, "GOVERNMENT"))
                        + (IF validator.type = "GOVERNMENT" THEN 0 ELSE 1)
      total == govCount + citizenCount
  IN /\ ~(validator.type = "GOVERNMENT"
            /\ govCount * 100 > (GovernmentValidatorRatio + RatioDeviation) * total)
     /\ ~(validator.type = "CITIZEN"
            /\ citizenCount * 100 > (CitizenValidatorRatio + RatioDeviation) * total)

\* addValidator: the checks made before the validator is staged
AddValidatorAccepts(validator) ==
  LET totalValidators == Cardinality(DOMAIN currentValidators)
                           + Cardinality(DOMAIN pendingValidators)
      govCount == CountType(currentValidators, "GOVERNMENT")
                    + CountType(pendingValidators, "GOVERNMENT")
                    + (IF validator.type = "GOVERNMENT" THEN 1 ELSE 0)
      citizenCount == (totalValidators
                         - CountType(currentValidators, "GOVERNMENT")
                         - CountType(pendingValidators, "GOVERNMENT"))
                        + (IF validator.type = "GOVERNMENT" THEN 0 ELSE 1)
      total == govCount + citizenCount
  IN /\ ~(totalValidators >= MaxValidators)
     /\ ~(validator.type = "GOVERNMENT"
            /\ govCount * 100 > (GovernmentValidatorRatio + RatioDeviation) * total)
     /\ ~(validator.type = "CITIZEN"
            /\ citizenCount * 100 > (CitizenValidatorRatio + RatioDeviation) * total)

Vote(block, validatorAddress) ==
  [validatorAddress |-> validatorAddress, blockHash |-> block.hash,
   blockHeight |-> block.header.height]

Voters(blockVotes) == { blockVotes[i].validatorAddress : i \in DOMAIN blockVotes }

\* voteOnBlock: the votes map after the vote is pushed, unless the validator
\* has already voted for this hash
RecordVote(vts, block, validatorAddress) ==
  IF validatorAddress \in Voters(MapGet(vts, block.hash, << >>))
  THEN MapSet(vts, block.hash, MapGet(vts, block.hash, << >>))
  ELSE MapSet(vts, block.hash,
              Append(MapGet(vts, block.hash, << >>), Vote(block, validatorAddress)))

RECURSIVE VotingPower(_, _)
VotingPower(cur, addresses) ==
  IF addresses = {} THEN 0
  ELSE LET a == CHOOSE x \in addresses : TRUE
       IN cur[a].votingPower + VotingPower(cur, addresses \ {a})

\* collectedVotingPower / totalVotingPower >= requiredConsensus - epsilon
RatioReached(collectedVotingPower, totalVotingPower) ==
  /\ totalVotingPower # 0
  /\ collectedVotingPower * 10000 >= (RequiredConsensus - Epsilon) * totalVotingPower

\* faulty variant: more than half of the voting power suffices
HasConsensus_SimpleMajority(vts, cur, blockHash) ==
  /\ blockHash \in DOMAIN vts
  /\ Len(vts[blockHash]) # 0
  /\ 2 * VotingPower(cur, DOMAIN cur \cap Voters(vts[blockHash]))
       > VotingPower(cur, DOMAIN cur)

\* hasConsensus(blockHash)
HasConsensus(vts, cur, blockHash) ==
  /\ blockHash \in DOMAIN vts
  /\ Len(vts[blockHash]) # 0
  /\ RatioReached(VotingPower(cur, DOMAIN cur \cap Voters(vts[blockHash])),
                  VotingPower(cur, DOMAIN cur))

\* the active validators sorted by address
SortedActive(cur) ==
  SelectSeq(AddressOrder, LAMBDA a : a \in DOMAIN cur /\ cur[a].active)

\* Array.findIndex: zero-based, -1 when absent
FindIndex(seq, x) ==
  IF \E i \in 1..Len(seq) : seq[i] = x
  THEN (CHOOSE i \in 1..Len(seq) : seq[i] = x) - 1
  ELSE -1

\* faulty variant: the successor's successor
NextProposer_SkipsOne(sorted, proposer) ==
  sorted[((FindIndex(sorted, proposer) + 2) % Len(sorted)) + 1]

\* selectNextProposer on a non-empty list of active validators
NextProposer(sorted, proposer) == sorted[((FindIndex(sorted, proposer) + 1) % Len(sorted)) + 1]

\* finalizeBlock: "Update validator states"
MarkActive(cur, height) ==
  [a \in DOMAIN cur |-> [cur[a] EXCEPT !.lastActiveBlock = height]]

\* rotateValidators: "Move pending validators to active"
Promote(cur, pend) ==
  [a \in DOMAIN cur \cup DOMAIN pend |-> IF a \in DOMAIN pend THEN pend[a] ELSE cur[a]]

\* rotateValidators: "Remove inactive validators"
Evict(cur, currentHeight) ==
  [a \in { x \in DOMAIN cur : ~(currentHeight - cur[x].lastActiveBlock > InactivityLimit) }
     |-> cur[a]]

RotateValidators(cur, pend, currentHeight) == Evict(Promote(cur, pend), currentHeight)

EngineUnchanged(result) ==
  [result |-> result, finalized |-> FALSE,
   currentValidators |-> currentValidators, pendingValidators |-> pendingValidators,
   lastRotationBlock |-> lastRotationBlock, currentProposer |-> currentProposer,
   round |-> round, votes |-> votes, finalizedCalls |-> finalizedCalls]

\* finalizeBlock from "Select next proposer" on: selectNextProposer throws when
\* no current validator is active, and then neither the callback nor the
\* deletion of the votes is reached
ProposeAndNotify(block, vts, cur, pend, rotationBlock) ==
  IF SortedActive(cur) = << >>
  THEN [EngineUnchanged("throw") EXCEPT
          !.currentValidators = cur, !.pendingValidators = pend,
          !.lastRotationBlock = rotationBlock, !.votes = vts]
  ELSE [result |-> "vote", finalized |-> TRUE,
        currentValidators |-> cur, pendingValidators |-> pend,
        lastRotationBlock |-> rotationBlock,
        currentProposer |-> NextProposer(SortedActive(cur), currentProposer),
        round |-> round + 1,
        votes |-> MapDelete(vts, block.hash),
        finalizedCalls |-> MapSet(finalizedCalls, block.hash,
                                  MapGet(finalizedCalls, block.hash, 0) + 1)]

FinalizeBlock(block, vts) ==
  IF block.header.height - lastRotationBlock >= ValidatorRotationInterval
  THEN ProposeAndNotify(block, vts,
         RotateValidators(MarkActive(currentValidators, block.header.height),
                          pendingValidators, block.header.height),
         EmptyMap, block.header.height)
  ELSE ProposeAndNotify(block, vts, MarkActive(currentValidators, block.header.height),
                        pendingValidators, lastRotationBlock)

\* voteOnBlock once the vote is recorded
CheckConsensus(block, vts) ==
  IF HasConsensus(vts, currentValidators, block.hash) /\ block.hash \in DOMAIN vts
  THEN FinalizeBlock(block, vts)
  ELSE [EngineUnchanged("vote") EXCEPT !.votes = vts]

\* faulty variant: the active flag of the validator is not looked at
VoteOnBlockResult_ActiveUnchecked(block, validatorAddress) ==
  IF validatorAddress \notin DOMAIN currentValidators
  THEN EngineUnchanged("throw")
  ELSE CheckConsensus(block, RecordVote(votes, block, validatorAddress))

\* voteOnBlock(block, validatorAddress, validatorPrivateKey)
VoteOnBlockResult(block, validatorAddress) ==
  IF \/ validatorAddress \notin DOMAIN currentValidators
     \/ ~currentValidators[validatorAddress].active
  THEN EngineUnchanged("throw")
  ELSE CheckConsensus(block, RecordVote(votes, block, validatorAddress))

(***************************************************************************)
(* Consensus actions                                                       *)
(***************************************************************************)
\* faulty variant: the first validator of the list proposes, unsorted
InitializeGenesis_FirstListed(list) ==
  /\ lastOp.op = "none"
  /\ currentValidators' =
       [a \in DOMAIN currentValidators \cup { list[i].address : i \in DOMAIN list } |->
          IF \E i \in DOMAIN list : list[i].address = a
          THEN list[CHOOSE i \in DOMAIN list : list[i].address = a]
          ELSE currentValidators[a]]
  /\ currentProposer' = IF Len(list) > 0 THEN list[1].address ELSE currentProposer
  /\ lastOp' = [op |-> "initializeGenesis", validators |-> list]
  /\ UNCHANGED <<pendingValidators, lastRotationBlock, round, votes, finalizedCalls,
                 ledgerVars, libraryVars, stateVars, p2pVars, mempoolVars>>

\* initializeGenesis(validators), called once on the new engine
InitializeGenesis(list) ==
  /\ lastOp.op = "none"
  /\ currentValidators' =
       [a \in DOMAIN currentValidators \cup { list[i].address : i \in DOMAIN list } |->
          IF \E i \in DOMAIN list : list[i].address = a
          THEN list[CHOOSE i \in DOMAIN list : list[i].address = a]
          ELSE currentValidators[a]]
  /\ currentProposer' =
       IF Len(list) > 0
       THEN SelectSeq(AddressOrder,
                      LAMBDA a : \E i \in DOMAIN list : list[i].address = a)[1]
       ELSE currentProposer
  /\ lastOp' = [op |-> "initializeGenesis", validators |-> list]
  /\ UNCHANGED <<pendingValidators, lastRotationBlock, round, votes, finalizedCalls,
                 ledgerVars, libraryVars, stateVars, p2pVars, mempoolVars>>

\* addValidator(validator)
AddValidator(validator) ==
  /\ lastOp.op # "none"
  /\ \E accepted \in {AddValidatorAccepts(validator)} :
        /\ pendingValidators' =
             IF accepted THEN MapSet(pendingValidators, validator.address, validator)
             ELSE pendingValidators
        /\ lastOp' = [op |-> "addValidator", validator |-> validator, result |-> accepted]
  /\ UNCHANGED <<currentValidators, lastRotationBlock, currentProposer, round, votes,
                 finalizedCalls, ledgerVars, libraryVars, stateVars, p2pVars, mempoolVars>>

\* voteOnBlock(block, validatorAddress, validatorPrivateKey).  Votes are
\* delivered for one block hash at a time: a vote for another hash arrives
\* once the votes collected for the open one are cleared.
VoteOnBlock(block, validatorAddress) ==
  /\ lastOp.op # "none"
  /\ round < MaxRound
  /\ DOMAIN votes \subseteq {block.hash}
  /\ \E r \in {VoteOnBlockResult(block, validatorAddress)} :
        /\ currentValidators' = r.currentValidators
        /\ pendingValidators' = r.pendingValidators
        /\ lastRotationBlock' = r.lastRotationBlock
        /\ currentProposer' = r.currentProposer
        /\ round' = r.round
        /\ votes' = r.votes
        /\ finalizedCalls' = r.finalizedCalls
        /\ lastOp' = [op |-> "voteOnBlock", block |-> block,
                      validatorAddress |-> validatorAddress,
                      result |-> r.result, finalized |-> r.finalized]
  /\ UNCHANGED <<ledgerVars, libraryVars, stateVars, p2pVars, mempoolVars>>

\* the engine after its constructor
InitConsensus ==
  InitLedgerVars /\ InitStateVars /\ InitConsensusVars /\ InitP2PVars /\ InitMempoolVars /\ InitLibraryVars /\ lastOp = NoOp

VoterAddresses == { AddressOrder[i] : i \in DOMAIN AddressOrder }

NextConsensus ==
  \/ \E list \in GenesisLists : InitializeGenesis(list)
  \/ \E validator \in Candidates : AddValidator(validator)
  \/ \E block \in VoteBlocks, validatorAddress \in VoterAddresses :
       VoteOnBlock(block, validatorAddress)

SpecConsensus == InitConsensus /\ [][NextConsensus]_vars

(***************************************************************************)
(* Properties of the consensus engine (SpecConsensus)                      *)
(***************************************************************************)
\* C2: finalization happens at most once per block hash: over any sequence
\* of voteOnBlock calls, votes re-delivered after the finalization included,
\* the finalized-block callback is invoked at most once for a block hash.
FinalizedAtMostOnce ==
  \A h \in DOMAIN finalizedCalls : finalizedCalls[h] <= 1

EqualVotingPower ==
  \A a \in DOMAIN currentValidators : currentValidators[a].votingPower = 1

\* ceil(0.66 * n)
VotesNeeded(n) == (66 * n + 99) \div 100

\* C3: with N current validators of voting power 1 each, an accepted vote
\* finalizes its block exactly when, counting that vote, ceil(0.66 * N)
\* distinct current validators have votes recorded for the block's hash; and
\* for every N up to 100 the ratio test of hasConsensus is passed by exactly
\* the vote counts from ceil(0.66 * N) on.
FinalizedAtThreshold ==
  [][/\ (lastOp'.op = "voteOnBlock" /\ lastOp'.result = "vote" /\ EqualVotingPower)
        => ((lastOp'.finalized /\ finalizedCalls' # finalizedCalls) <=>
              Cardinality((Voters(MapGet(votes, lastOp'.block.hash, << >>))
                             \cup {lastOp'.validatorAddress})
                            \cap DOMAIN currentValidators)
                >= VotesNeeded(Cardinality(DOMAIN currentValidators)))
     /\ lastOp.op = "none"
        => \A n \in 1..100 : \A k \in 0..n : RatioReached(k, n) <=> k >= VotesNeeded(n)]_vars

\* of the four genesis validators the third distinct voter has just
\* finalized block1, the first block to be finalized
FinalizedAtThresholdWitness ==
  /\ lastOp.op = "voteOnBlock"
  /\ lastOp.finalized
  /\ lastOp.block.hash = "block1"
  /\ DOMAIN currentValidators = {"GOV1", "GOV2", "CIT1", "CIT2"}
  /\ EqualVotingPower
  /\ round = 1
  /\ MapGet(finalizedCalls, "block1", 0) = 1

NoDuplicateVotes ==
  \A h \in DOMAIN votes : \A i, j \in DOMAIN votes[h] :
    votes[h][i].validatorAddress = votes[h][j].validatorAddress => i = j

\* C4: votes are deduplicated per validator: a vote set never holds two votes
\* of one validator, and a vote repeated by the same validator for the same
\* hash (here: right after its accepted vote) changes neither the recorded
\* votes nor the finalizations.
RepeatedVoteChangesNothing ==
  [][/\ NoDuplicateVotes'
     /\ (/\ lastOp.op = "voteOnBlock" /\ lastOp.result = "vote"
         /\ lastOp'.op = "voteOnBlock"
         /\ lastOp'.block = lastOp.block
         /\ lastOp'.validatorAddress = lastOp.validatorAddress)
          => (votes' = votes /\ finalizedCalls' = finalizedCalls)]_vars

\* the share of the candidate's type among the entries of the current and
\* pending sets plus the candidate is at most the type's target ratio plus
\* 10 percentage points
TypeShareWithinLimit(c) ==
  (CountType(currentValidators, c.type) + CountType(pendingValidators, c.type) + 1) * 100
    <= ((IF c.type = "GOVERNMENT" THEN GovernmentValidatorRatio
         ELSE CitizenValidatorRatio) + 10)
         * (Cardinality(DOMAIN currentValidators)
              + Cardinality(DOMAIN pendingValidators) + 1)

\* C7: addValidator(c) returns true and stages c in the pending set iff the
\* current and pending sets together hold fewer than maxValidators entries
\* and the share of c's type, counting those entries plus c, does not exceed
\* the type's target ratio plus 10 percentage points; otherwise it returns
\* false and stages nothing.
AddValidatorContract ==
  [][lastOp'.op = "addValidator" =>
       /\ lastOp'.result <=>
            (/\ Cardinality(DOMAIN currentValidators)
                  + Cardinality(DOMAIN pendingValidators) < MaxValidators
             /\ TypeShareWithinLimit(lastOp'.validator))
       /\ lastOp'.result =>
            (/\ lastOp'.validator.address \in DOMAIN pendingValidators'
             /\ pendingValidators'[lastOp'.validator.address] = lastOp'.validator)
       /\ ~lastOp'.result => pendingValidators' = pendingValidators
       /\ currentValidators' = currentValidators]_vars

\* from two government and two citizen validators CIT3 was accepted (3 of 5)
\* and CIT4 has just been rejected (4 of 6), below maxValidators
AddValidatorContractWitness ==
  /\ lastOp.op = "addValidator"
  /\ lastOp.validator.address = "CIT4"
  /\ ~lastOp.result
  /\ DOMAIN currentValidators = {"GOV1", "GOV2", "CIT1", "CIT2"}
  /\ DOMAIN pendingValidators = {"CIT3"}
  /\ Cardinality(DOMAIN currentValidators) + Cardinality(DOMAIN pendingValidators)
       < MaxValidators

\* C15: voteOnBlock by an address that is not a current validator, or that is
\* one with active = false, is rejected with an error, records no vote,
\* changes no vote set and finalizes nothing; a validator that is only in
\* the pending set is among the rejected.
IneligibleVoteRejected ==
  [][(/\ lastOp'.op = "voteOnBlock"
      /\ \/ lastOp'.validatorAddress \notin DOMAIN currentValidators
         \/ ~currentValidators[lastOp'.validatorAddress].active)
       => /\ lastOp'.result = "throw"
          /\ ~lastOp'.finalized
          /\ UNCHANGED consensusVars]_vars

\* a validator staged in the pending set, and not a current one, has just had
\* its vote rejected
IneligibleVoteWitness ==
  /\ lastOp.op = "voteOnBlock"
  /\ lastOp.result = "throw"
  /\ lastOp.validatorAddress \in DOMAIN pendingValidators
  /\ lastOp.validatorAddress \notin DOMAIN currentValidators

\* C23: from a genesis set of at most maxValidators validators on, the
\* current validators and the pending validators together never number more
\* than maxValidators, whatever addValidator calls and finalizations (with
\* rotations) happen.
ValidatorCountBounded ==
  Cardinality(DOMAIN currentValidators) + Cardinality(DOMAIN pendingValidators)
    <= MaxValidators

\* the two sets together hold maxValidators entries and a further candidate
\* has just been turned away
ValidatorCountBoundedWitness ==
  /\ lastOp.op = "addValidator"
  /\ ~lastOp.result
  /\ pendingValidators # EmptyMap
  /\ Cardinality(DOMAIN currentValidators) + Cardinality(DOMAIN pendingValidators)
       = MaxValidators

\* a.address.localeCompare(b.address) <= 0 on the addresses in use
Precedes(a, b) == FindIndex(AddressOrder, a) <= FindIndex(AddressOrder, b)

\* C24: after initializeGenesis(validators) with a non-empty list the current
\* validators are exactly the validators given, currentProposer is the given
\* validator with the smallest address (CIT1 for GOV1, GOV2, CIT1, CIT2), and
\* round is 0.
GenesisSetsValidatorsAndProposer ==
  [][(lastOp'.op = "initializeGenesis" /\ Len(lastOp'.validators) > 0)
       => /\ DOMAIN currentValidators'
               = {lastOp'.validators[i].address : i \in DOMAIN lastOp'.validators}
          /\ \A i \in DOMAIN lastOp'.validators :
               currentValidators'[lastOp'.validators[i].address] = lastOp'.validators[i]
          /\ currentProposer' \in DOMAIN currentValidators'
          /\ \A a \in DOMAIN currentValidators' : Precedes(currentProposer', a)
          /\ (DOMAIN currentValidators' = {"GOV1", "GOV2", "CIT1", "CIT2"}
                => currentProposer' = "CIT1")
          /\ round' = 0]_vars

\* the engine has just been initialized with GOV1, GOV2, CIT1, CIT2 in this
\* order, and CIT1 proposes
GenesisProposerWitness ==
  /\ lastOp.op = "initializeGenesis"
  /\ Len(lastOp.validators) = 4
  /\ lastOp.validators[1].address = "GOV1"
  /\ currentProposer = "CIT1"
  /\ round = 0

\* C27: a finalization with block.height - lastRotationBlock of at least
\* validatorRotationInterval brings every validator of the pending set into
\* the current set, empties the pending set and sets lastRotationBlock to the
\* block's height; any other finalization leaves the pending set and
\* lastRotationBlock as they were.
RotationPromotesPending ==
  [][(lastOp'.op = "voteOnBlock" /\ lastOp'.finalized)
       => IF lastOp'.block.header.height - lastRotationBlock >= ValidatorRotationInterval
          THEN /\ DOMAIN pendingValidators \subseteq DOMAIN currentValidators'
               /\ pendingValidators' = EmptyMap
               /\ lastRotationBlock' = lastOp'.block.header.height
          ELSE UNCHANGED <<pendingValidators, lastRotationBlock>>]_vars

\* the active current validators
ActiveValidators(cur) == {a \in DOMAIN cur : cur[a].active}

\* b follows a in the cyclic address order of the set of addresses S
CyclicSuccessor(S, a, b) ==
  /\ b \in S
  /\ IF \E x \in S : x # a /\ Precedes(a, x)
     THEN /\ b # a /\ Precedes(a, b)
          /\ \A x \in S : (x # a /\ Precedes(a, x)) => Precedes(b, x)
     ELSE \A x \in S : Precedes(b, x)

\* C28: every finalization moves currentProposer to the cyclic successor, in
\* address order among the active current validators as they are after the
\* rotation, of the previous proposer (to the smallest address if the
\* previous proposer is not among them) and adds 1 to round; so the proposer
\* is an active current validator and, with two or more of them, not the
\* previous one.
ProposerRoundRobin ==
  [][(lastOp'.op = "voteOnBlock" /\ lastOp'.finalized)
       => /\ round' = round + 1
          /\ currentProposer' \in ActiveValidators(currentValidators')
          /\ IF currentProposer \in ActiveValidators(currentValidators')
             THEN CyclicSuccessor(ActiveValidators(currentValidators'),
                                  currentProposer, currentProposer')
             ELSE \A a \in ActiveValidators(currentValidators') :
                     Precedes(currentProposer', a)
          /\ (Cardinality(ActiveValidators(currentValidators')) >= 2
                => currentProposer' # currentProposer)]_vars

\* after the second finalization under GOV1, GOV2, CIT1, CIT2 the proposer
\* has moved from CIT1 over CIT2 to GOV1
ProposerRoundRobinWitness ==
  /\ lastOp.op = "voteOnBlock"
  /\ lastOp.finalized
  /\ round = 2
  /\ DOMAIN currentValidators = {"GOV1", "GOV2", "CIT1", "CIT2"}
  /\ currentProposer = "GOV1"

\* C33: a finalization removes no validator that was current before it: every
\* address of the current set before a finalizing vote is in the current set
\* after it.
FinalizationKeepsCurrentValidators ==
  [][(lastOp'.op = "voteOnBlock" /\ lastOp'.finalized)
       => DOMAIN currentValidators \subseteq DOMAIN currentValidators']_vars

\* the blocks for which the finalized-block callback has been invoked
FinalizedBlocks == {b \in VoteBlocks : MapGet(finalizedCalls, b.hash, 0) > 0}

\* C38: the engine finalizes at most one block hash per block height.
OneFinalizedBlockPerHeight ==
  \A a, b \in FinalizedBlocks : a.header.height = b.header.height => a.hash = b.hash

(***************************************************************************)
(* P2PNetwork (libs/core/p2p)                                              *)
(***************************************************************************)
MaxSockets == 2   \* WebSocket objects created (accepted or dialed)
MaxClock == 1     \* Date.now() ranges over 0..MaxClock, in units of 120000 ms
MaxUptime == 2    \* the same for the node with its timers running
\* staleTimeout of cleanupStalePeers (120000 ms), in the unit of the clock
StaleTimeout == 1

NetworkId == <<"chuckram">>          \* config.networkId
ForeignNetworkId == <<"testnet">>    \* the networkId of another network
NodeId == <<"node">>                 \* this.nodeId
PeerA == <<"peerA">>
PeerB == <<"peerB">>
PeerIds == {PeerA, PeerB}

\* `temp_${Date.now()}`
TempPeerId(now) == <<"temp_">> \o NumToString(now)

Peer(id, address, lastSeen) == [id |-> id, address |-> address, lastSeen |-> lastSeen]

\* config.seedPeers
SeedPeers == { Peer(PeerA, <<"hostA">>, 0), Peer(PeerB, <<"hostB">>, 0) }

\* a WebSocket: its url (empty for an accepted connection), the peerId bound
\* in its handler closures, and its readyState
Socket(url, peerId, readyState) ==
  [url |-> url, peerId |-> peerId, readyState |-> readyState]

Handshake(networkId, peerId) ==
  [version |-> <<"1">>, networkId |-> networkId, chainHeight |-> 0, peerId |-> peerId]

HandshakePayloads ==
  { Handshake(networkId, peerId) :
      networkId \in {NetworkId, ForeignNetworkId}, peerId \in PeerIds }

\* PEER_DISCOVERY payloads: the empty object sent by requestPeerDiscovery, and
\* peer lists
DiscoveryPayloads ==
  { EmptyMap,
    [peers |-> << Peer(PeerA, <<"hostA">>, 0) >>],
    [peers |-> << Peer(NodeId, <<"self">>, 0), Peer(PeerB, <<"hostB">>, 0) >>] }

\* sendMessage(ws, type, payload)
Message(ws, type) == [socket |-> ws, type |-> type]

CurrentNet ==
  [peers |-> peers, connections |-> connections, sockets |-> sockets, sent |-> << >>]

\* connectToPeer(peer): a new WebSocket unless the peer id has a connection
ConnectToPeerResult(net, peer) ==
  IF peer.id \in DOMAIN net.connections THEN net
  ELSE [net EXCEPT !.sockets = Append(@, Socket(<<"ws://">> \o peer.address, peer.id,
                                                "connecting"))]

\* handlePeerDisconnect(peerId)
HandlePeerDisconnect(net, peerId) ==
  [net EXCEPT !.peers = MapDelete(@, peerId), !.connections = MapDelete(@, peerId)]

\* handleHandshake once the networkId is accepted
RegisterPeer(net, payload, tempPeerId, ws) ==
  [peers |-> MapSet(MapDelete(net.peers, tempPeerId), payload.peerId,
                    Peer(payload.peerId, net.sockets[ws].url, clock)),
   connections |->
     IF tempPeerId \in DOMAIN net.connections
     THEN MapSet(MapDelete(net.connections, tempPeerId), payload.peerId,
                 net.connections[tempPeerId])
     ELSE net.connections,
   sockets |-> net.sockets,
   sent |-> net.sent
              \o (IF net.sockets[ws].url = << >> THEN << Message(ws, "HANDSHAKE") >>
                  ELSE << >>)
              \o << Message(ws, "PEER_DISCOVERY") >>]

\* faulty variant: the peer is registered before the networkId is compared
HandleHandshake_RegisterBeforeValidation(net, payload, tempPeerId, ws) ==
  IF payload.networkId # NetworkId
  THEN [RegisterPeer(net, payload, tempPeerId, ws) EXCEPT
          !.sockets[ws].readyState = "closing", !.sent = << >>]
  ELSE RegisterPeer(net, payload, tempPeerId, ws)

\* handleHandshake(payload, tempPeerId, ws)
HandleHandshake(net, payload, tempPeerId, ws) ==
  IF payload.networkId # NetworkId
  THEN [net EXCEPT !.sockets[ws].readyState = "closing"]
  ELSE RegisterPeer(net, payload, tempPeerId, ws)

\* handlePeerDiscovery: the loop over payload.peers
RECURSIVE AddNewPeers(_, _)
AddNewPeers(net, list) ==
  IF list = << >> THEN net
  ELSE IF Head(list).id \notin DOMAIN net.peers /\ Head(list).id # NodeId
       THEN AddNewPeers(
              ConnectToPeerResult([net EXCEPT !.peers = MapSet(@, Head(list).id, Head(list))],
                                  Head(list)),
              Tail(list))
       ELSE AddNewPeers(net, Tail(list))

\* handlePeerDiscovery(payload, ws); iterating the peers of an empty payload
\* throws, which the message handler catches
HandlePeerDiscovery(net, payload) ==
  IF "peers" \in DOMAIN payload THEN AddNewPeers(net, payload.peers) ELSE net

\* handleMessage, case PONG: the lookup uses the peerId of the handler closure
HandlePong(net, peerId, now) ==
  IF peerId \in DOMAIN net.peers
  THEN [net EXCEPT !.peers[peerId].lastSeen = now]
  ELSE net

\* the peer ids that cleanupStalePeers hands to handlePeerDisconnect
StalePeerIds(net, now) ==
  {peerId \in DOMAIN net.peers : now - net.peers[peerId].lastSeen > StaleTimeout}

\* cleanupStalePeers(): handlePeerDisconnect for every stale peer
CleanupStalePeersResult(net, now) ==
  [net EXCEPT
     !.peers = [peerId \in DOMAIN net.peers \ StalePeerIds(net, now) |-> net.peers[peerId]],
     !.connections = [peerId \in DOMAIN net.connections \ StalePeerIds(net, now)
                        |-> net.connections[peerId]]]

\* the sends of a loop over the connections map: one message per entry,
\* keyed like the map; send() on a socket that is not open transmits nothing
SentToConnections(net, type) ==
  [peerId \in {id \in DOMAIN net.connections :
                 net.sockets[net.connections[id]].readyState = "open"}
     |-> Message(net.connections[peerId], type)]

\* broadcast(type, payload)
BroadcastResult(net, type) == SentToConnections(net, type)

\* broadcastBlock, broadcastTransaction, broadcastConsensusMessage
BroadcastTypes == {"BLOCK_ANNOUNCEMENT", "TRANSACTION_ANNOUNCEMENT", "CONSENSUS_MESSAGE"}

(***************************************************************************)
(* P2P actions                                                             *)
(***************************************************************************)
\* time passes, up to limit
Advance(limit) ==
  /\ clock < limit
  /\ clock' = clock + 1
  /\ lastOp' = [op |-> "tick"]
  /\ UNCHANGED <<server, intervals, peers, connections, sockets, ledgerVars, stateVars, consensusVars, libraryVars, mempoolVars>>

Tick == Advance(MaxClock)

\* server 'connection' event: handleConnection(ws, remoteAddress)
HandleConnection ==
  /\ server = "listening"
  /\ Len(sockets) < MaxSockets
  /\ sockets' = Append(sockets, Socket(<< >>, TempPeerId(clock), "open"))
  /\ lastOp' = [op |-> "handleConnection", socket |-> Len(sockets) + 1]
  /\ UNCHANGED <<server, intervals, peers, connections, clock, ledgerVars, stateVars, consensusVars, libraryVars, mempoolVars>>

\* connectToPeer(seedPeer)
ConnectToPeer(peer) ==
  /\ Len(sockets) < MaxSockets
  /\ \E net \in {ConnectToPeerResult(CurrentNet, peer)} :
        /\ sockets' = net.sockets
        /\ lastOp' = [op |-> "connectToPeer", peerId |-> peer.id,
                      dialed |-> Len(net.sockets) > Len(sockets)]
  /\ UNCHANGED <<server, intervals, peers, connections, clock, ledgerVars, stateVars, consensusVars, libraryVars, mempoolVars>>

\* ws 'open' event of a dialed socket
SocketOpen(ws) ==
  /\ sockets[ws].readyState = "connecting"
  /\ sockets' = [sockets EXCEPT ![ws].readyState = "open"]
  /\ connections' = MapSet(connections, sockets[ws].peerId, ws)
  /\ lastOp' = [op |-> "open", socket |-> ws, sent |-> << Message(ws, "HANDSHAKE") >>]
  /\ UNCHANGED <<server, intervals, peers, clock, ledgerVars, stateVars, consensusVars, libraryVars, mempoolVars>>

\* ws 'message' event carrying a HANDSHAKE
ReceiveHandshake(ws, payload) ==
  /\ sockets[ws].readyState = "open"
  /\ \E net \in {HandleHandshake(CurrentNet, payload, sockets[ws].peerId, ws)} :
        /\ peers' = net.peers
        /\ connections' = net.connections
        /\ sockets' = net.sockets
        /\ lastOp' = [op |-> "handleHandshake", socket |-> ws, payload |-> payload,
                      sent |-> net.sent]
  /\ UNCHANGED <<server, intervals, clock, ledgerVars, stateVars, consensusVars, libraryVars, mempoolVars>>

\* ws 'message' event carrying a PEER_DISCOVERY
ReceivePeerDiscovery(ws, payload) ==
  /\ sockets[ws].readyState = "open"
  /\ "peers" \in DOMAIN payload => Len(sockets) + Len(payload.peers) <= MaxSockets
  /\ \E net \in {HandlePeerDiscovery(CurrentNet, payload)} :
        /\ peers' = net.peers
        /\ sockets' = net.sockets
        /\ lastOp' = [op |-> "handlePeerDiscovery", socket |-> ws, payload |-> payload]
  /\ UNCHANGED <<server, intervals, connections, clock, ledgerVars, stateVars, consensusVars, libraryVars, mempoolVars>>

\* PEER_LIST payloads: lists of peers
PeerListPayloads == {payload \in DiscoveryPayloads : "peers" \in DOMAIN payload}

\* ws 'message' event carrying a PEER_LIST: the switch of handleMessage has no
\* case for the type
ReceivePeerList(ws, payload) ==
  /\ sockets[ws].readyState = "open"
  /\ lastOp' = [op |-> "handleMessage", type |-> "PEER_LIST", socket |-> ws,
                payload |-> payload]
  /\ UNCHANGED <<p2pVars, ledgerVars, stateVars, consensusVars, libraryVars, mempoolVars>>

\* ws 'close' event: after ws.close(), a close by the remote end, or a failed
\* dial
SocketClosed(ws) ==
  /\ sockets[ws].readyState # "closed"
  /\ \E net \in {HandlePeerDisconnect(CurrentNet, sockets[ws].peerId)} :
        /\ peers' = net.peers
        /\ connections' = net.connections
        /\ sockets' = [sockets EXCEPT ![ws].readyState = "closed"]
        /\ lastOp' = [op |-> "close", socket |-> ws]
  /\ UNCHANGED <<server, intervals, clock, ledgerVars, stateVars, consensusVars, libraryVars, mempoolVars>>

\* ws 'message' event carrying a PONG
ReceivePong(ws) ==
  /\ sockets[ws].readyState = "open"
  /\ \E net \in {HandlePong(CurrentNet, sockets[ws].peerId, clock)} :
        /\ peers' = net.peers
        /\ lastOp' = [op |-> "handlePong", socket |-> ws]
  /\ UNCHANGED <<server, intervals, connections, sockets, clock, ledgerVars, stateVars, consensusVars, libraryVars, mempoolVars>>

\* the 30 s timer: pingPeers()
PingPeers ==
  /\ "pingPeers" \in intervals
  /\ lastOp' = [op |-> "pingPeers", sent |-> SentToConnections(CurrentNet, "PING")]
  /\ UNCHANGED <<p2pVars, ledgerVars, stateVars, consensusVars, libraryVars, mempoolVars>>

\* the 60 s timer: cleanupStalePeers()
CleanupStalePeers ==
  /\ "cleanupStalePeers" \in intervals
  /\ \E net \in {CleanupStalePeersResult(CurrentNet, clock)} :
        /\ peers' = net.peers
        /\ connections' = net.connections
        /\ lastOp' = [op |-> "cleanupStalePeers",
                      evicted |-> StalePeerIds(CurrentNet, clock)]
  /\ UNCHANGED <<server, intervals, sockets, clock, ledgerVars, stateVars, consensusVars, libraryVars, mempoolVars>>

\* the 300 s timer: discoverPeers()
DiscoverPeers ==
  /\ "discoverPeers" \in intervals
  /\ lastOp' = [op |-> "discoverPeers",
                sent |-> SentToConnections(CurrentNet, "PEER_DISCOVERY")]
  /\ UNCHANGED <<p2pVars, ledgerVars, stateVars, consensusVars, libraryVars, mempoolVars>>

\* connection.close() for every entry of the connections map
CloseConnections(net) ==
  [net EXCEPT !.sockets =
     [k \in DOMAIN net.sockets |->
        IF /\ \E id \in DOMAIN net.connections : net.connections[id] = k
           /\ net.sockets[k].readyState = "open"
        THEN [net.sockets[k] EXCEPT !.readyState = "closing"]
        ELSE net.sockets[k]]]

\* server.close(): whether the accepted connections that are open are closed
\* with the server depends on the version of the ws package
CloseServer(net, closesClients) ==
  [net EXCEPT !.sockets =
     [k \in DOMAIN net.sockets |->
        IF closesClients /\ net.sockets[k].url = << >> /\ net.sockets[k].readyState = "open"
        THEN [net.sockets[k] EXCEPT !.readyState = "closing"]
        ELSE net.sockets[k]]]

\* stop(): closes the connections and the server; the intervals of
\* startPeriodicTasks are not cleared
Stop ==
  /\ server = "listening"
  /\ \E closesClients \in BOOLEAN :
       \E net \in {CloseServer(CloseConnections(CurrentNet), closesClients)} :
          /\ sockets' = net.sockets
          /\ lastOp' = [op |-> "stop", closesClients |-> closesClients]
  /\ server' = "closed"
  /\ UNCHANGED <<peers, connections, clock, intervals, ledgerVars, stateVars, consensusVars, libraryVars,
                 mempoolVars>>

\* broadcastConsensusMessage(message)
Broadcast(type) ==
  /\ lastOp' = [op |-> "broadcast", type |-> type,
                sent |-> BroadcastResult(CurrentNet, type)]
  /\ UNCHANGED <<p2pVars, ledgerVars, stateVars, consensusVars, libraryVars, mempoolVars>>

\* the node after the constructor of P2PNetwork
InitP2P ==
  InitLedgerVars /\ InitStateVars /\ InitConsensusVars /\ InitP2PVars /\ InitMempoolVars /\ InitLibraryVars /\ lastOp = NoOp

NextP2P ==
  \/ Tick
  \/ HandleConnection
  \/ \E peer \in SeedPeers : ConnectToPeer(peer)
  \/ \E ws \in DOMAIN sockets : SocketOpen(ws)
  \/ \E ws \in DOMAIN sockets, payload \in HandshakePayloads : ReceiveHandshake(ws, payload)
  \/ \E ws \in DOMAIN sockets, payload \in DiscoveryPayloads :
       ReceivePeerDiscovery(ws, payload)
  \/ \E ws \in DOMAIN sockets : SocketClosed(ws)

\* connections, handshakes and peer discovery
SpecP2P == InitP2P /\ [][NextP2P]_vars

NextP2PTimers ==
  \/ Advance(MaxUptime)
  \/ HandleConnection
  \/ \E peer \in SeedPeers : ConnectToPeer(peer)
  \/ \E ws \in DOMAIN sockets : SocketOpen(ws)
  \/ \E ws \in DOMAIN sockets, payload \in HandshakePayloads : ReceiveHandshake(ws, payload)
  \/ \E ws \in DOMAIN sockets, payload \in DiscoveryPayloads :
       ReceivePeerDiscovery(ws, payload)
  \/ \E ws \in DOMAIN sockets : SocketClosed(ws)
  \/ \E ws \in DOMAIN sockets, payload \in PeerListPayloads : ReceivePeerList(ws, payload)
  \/ \E ws \in DOMAIN sockets : ReceivePong(ws)
  \/ PingPeers
  \/ CleanupStalePeers
  \/ DiscoverPeers
  \/ Stop
  \/ \E type \in BroadcastTypes : Broadcast(type)

\* the same with keepalive, stale-peer cleanup and broadcasts
SpecP2PTimers == InitP2P /\ [][NextP2PTimers]_vars

(***************************************************************************)
(* Properties of the P2P network (SpecP2P)                                 *)
(***************************************************************************)
MismatchedHandshake(op) ==
  op.op = "handleHandshake" /\ op.payload.networkId # NetworkId

OnlySocketAt(ws) ==
  \A other \in DOMAIN sockets : other # ws => sockets[other].url # sockets[ws].url
RegisteredOn(ws) == {p \in DOMAIN peers : peers[p].address = sockets[ws].url}

\* an open connection that has completed a handshake and whose peer is
\* registered
Established(ws) ==
  /\ sockets[ws].readyState = "open"
  /\ OnlySocketAt(ws)
  /\ RegisteredOn(ws) # {}

\* C18: a PONG received on an established connection sets the lastSeen of
\* the peer registered by the connection's handshake to the current time,
\* and the stale-peer cleanup that follows a PONG does not remove that peer;
\* for accepted as for dialed connections.
RespondingPeerStaysFresh ==
  [][/\ (lastOp'.op = "handlePong" /\ Established(lastOp'.socket))
          => \A p \in RegisteredOn(lastOp'.socket) :
                p \in DOMAIN peers' /\ peers'[p].lastSeen = clock
     /\ (/\ lastOp'.op = "cleanupStalePeers"
         /\ lastOp.op = "handlePong"
         /\ Established(lastOp.socket))
          => RegisteredOn(lastOp.socket) \subseteq DOMAIN peers']_vars

\* C19: a broadcast sends exactly one message of its type on every
\* established connection, accepted or dialed, and on open sockets only.
BroadcastReachesEveryPeer ==
  [][lastOp'.op = "broadcast"
       => /\ \A ws \in DOMAIN sockets :
               Established(ws)
                 => Cardinality({id \in DOMAIN lastOp'.sent :
                                   lastOp'.sent[id] = Message(ws, lastOp'.type)}) = 1
          /\ \A id \in DOMAIN lastOp'.sent :
               sockets[lastOp'.sent[id].socket].readyState = "open"]_vars

\* C20: when an established connection closes, and when the peer of an
\* established connection is evicted as stale, neither the peers map nor the
\* connections map holds an entry for the peer id registered by the
\* connection's handshake afterwards.
PeerRemovedWithConnection ==
  [][/\ (lastOp'.op = "close" /\ Established(lastOp'.socket))
          => \A p \in RegisteredOn(lastOp'.socket) :
                p \notin DOMAIN peers' /\ p \notin DOMAIN connections'
     /\ lastOp'.op = "cleanupStalePeers"
          => \A ws \in DOMAIN sockets :
                Established(ws)
                  => \A p \in RegisteredOn(ws) \cap lastOp'.evicted :
                        p \notin DOMAIN peers' /\ p \notin DOMAIN connections']_vars

\* the ids of the peers of a list that are neither known nor the node itself
NewPeerIds(list) ==
  {list[i].id : i \in {k \in 1..Len(list) : list[k].id \notin DOMAIN peers /\ list[k].id # NodeId}}

\* the sockets created by the step
DialedSockets == {k \in DOMAIN sockets' : k \notin DOMAIN sockets}

\* C21: on a PEER_LIST message carrying a list of peers, every listed peer
\* that is neither known nor the node itself is registered in the peer table
\* and dialed once; known peers and the node's own id are neither registered
\* nor dialed.
PeerListRegistersAndDials ==
  [][(lastOp'.op = "handleMessage" /\ lastOp'.type = "PEER_LIST")
       => /\ DOMAIN peers' = DOMAIN peers \cup NewPeerIds(lastOp'.payload.peers)
          /\ \A id \in NewPeerIds(lastOp'.payload.peers) :
               Cardinality({k \in DialedSockets : sockets'[k].peerId = id}) = 1
          /\ \A k \in DialedSockets :
               sockets'[k].peerId \in NewPeerIds(lastOp'.payload.peers)]_vars

\* C22: stop() leaves every socket closed or closing, the server closed and no
\* periodic task scheduled, and once it has completed no keepalive ping,
\* stale-peer cleanup or discovery step runs.
StopCancelsEverything ==
  [][/\ lastOp'.op = "stop"
          => /\ \A k \in DOMAIN sockets' : sockets'[k].readyState \in {"closing", "closed"}
             /\ server' = "closed"
             /\ intervals' = {}
     /\ server = "closed"
          => lastOp'.op \notin {"pingPeers", "cleanupStalePeers", "discoverPeers"}]_vars

(***************************************************************************)
(* MempoolService (apps/blockchain-node/src/app/mempool)                   *)
(***************************************************************************)
\* configuration values, scaled: mempool.maxSize (50000 by default) and
\* mempool.maxSizePerAccount (25 by default)
MaxSize == 3
MaxSizePerAccount == 2
\* mempool.minFee
MinFee == 1
\* mempool.expirationTime (one hour by default) in units of the clock, one
\* unit being longer than it
ExpirationTime == 0
\* largest maxCount passed to getTransactionsForBlock
MaxCount == 3

\* Number(fee): a bigint fee converts exactly as long as it is below 2^53,
\* which every fee of the model is
FeeAsNumber(fee) == fee

\* the pool: pending is the id index in Map insertion order, byAccount the
\* sender index (the order within an id Set is not read by any operation
\* modelled here)
Pool(pending, byAccount) == [pending |-> pending, byAccount |-> byAccount]
CurrentPool == Pool(pendingTransactions, transactionsByAccount)

PendingIds(pending) == {pending[i].id : i \in DOMAIN pending}
\* pendingTransactions.has(txId)
HasTransaction(pending, txId) == txId \in PendingIds(pending)
\* pendingTransactions.get(txId), for a pending id
GetTransaction(pending, txId) ==
  pending[CHOOSE i \in DOMAIN pending : pending[i].id = txId]
\* getTransactionsByAccount(address)
GetTransactionsByAccount(byAccount, address) == MapGet(byAccount, address, {})

RECURSIVE WithoutId(_, _)
\* pendingTransactions.delete(txId)
WithoutId(pending, txId) ==
  IF pending = << >> THEN << >>
  ELSE IF Head(pending).id = txId THEN Tail(pending)
  ELSE <<Head(pending)>> \o WithoutId(Tail(pending), txId)

Outcome(pool, result, events) ==
  [pending |-> pool.pending, byAccount |-> pool.byAccount,
   result |-> result, events |-> events]

\* the insertion at the end of addTransaction
Admit(pool, tx, now) ==
  Outcome(Pool(Append(pool.pending,
                      [id |-> tx.id, from |-> tx.from, fee |-> tx.fee, addedAt |-> now]),
               MapSet(pool.byAccount, tx.from,
                      GetTransactionsByAccount(pool.byAccount, tx.from) \cup {tx.id})),
          "true", <<"mempool.transaction.added">>)

\* faulty variant: the sender's pending count is not limited
AddTransactionResult_NoAccountLimit(pool, tx, now) ==
  IF HasTransaction(pool.pending, tx.id) THEN Outcome(pool, "false", << >>)
  ELSE IF Len(pool.pending) >= MaxSize THEN Outcome(pool, "Mempool is full", << >>)
  ELSE IF FeeAsNumber(tx.fee) < MinFee THEN Outcome(pool, "Transaction fee too low", << >>)
  ELSE Admit(pool, tx, now)

\* addTransaction(transaction): "true", "false", or the message of the error
\* thrown
AddTransactionResult(pool, tx, now) ==
  IF HasTransaction(pool.pending, tx.id) THEN Outcome(pool, "false", << >>)
  ELSE IF Len(pool.pending) >= MaxSize THEN Outcome(pool, "Mempool is full", << >>)
  ELSE IF Cardinality(GetTransactionsByAccount(pool.byAccount, tx.from)) >= MaxSizePerAccount
       THEN Outcome(pool, "Account transaction limit reached", << >>)
  ELSE IF FeeAsNumber(tx.fee) < MinFee THEN Outcome(pool, "Transaction fee too low", << >>)
  ELSE Admit(pool, tx, now)

\* the basic validation of handleReceivedTransaction: id, from, to, amount and
\* signature are all truthy
HasRequiredFields(transaction) ==
  /\ transaction.id # ""
  /\ transaction.from # ""
  /\ transaction.to # ""
  /\ transaction.amount # 0
  /\ transaction.signature # ""

\* handleReceivedTransaction({transaction, peerId}): the early return of an
\* invalid transaction, else addTransaction awaited and, unless it threw,
\* 'mempool.transaction.validated' emitted; an error is caught and logged
HandleReceivedTransactionResult(pool, transaction, now) ==
  IF ~HasRequiredFields(transaction) THEN Outcome(pool, "invalid", << >>)
  ELSE IF AddTransactionResult(pool, transaction, now).result \in {"true", "false"}
       THEN Outcome(Pool(AddTransactionResult(pool, transaction, now).pending,
                         AddTransactionResult(pool, transaction, now).byAccount),
                    AddTransactionResult(pool, transaction, now).result,
                    Append(AddTransactionResult(pool, transaction, now).events,
                           "mempool.transaction.validated"))
       ELSE Outcome(pool, AddTransactionResult(pool, transaction, now).result, << >>)

\* the account index after txId of sender from left it; an empty Set is deleted
\* variant of the account-index update that keeps an emptied set
AccountIndexWithout_KeepsEmptySet(byAccount, from, txId) ==
  IF from \notin DOMAIN byAccount THEN byAccount
  ELSE MapSet(byAccount, from, byAccount[from] \ {txId})

AccountIndexWithout(byAccount, from, txId) ==
  IF from \notin DOMAIN byAccount THEN byAccount
  ELSE IF byAccount[from] \ {txId} = {} THEN MapDelete(byAccount, from)
  ELSE MapSet(byAccount, from, byAccount[from] \ {txId})

\* faulty variant: the account index is left as it is
RemoveTransactionResult_IdIndexOnly(pool, txId) ==
  IF ~HasTransaction(pool.pending, txId) THEN Outcome(pool, "false", << >>)
  ELSE Outcome(Pool(WithoutId(pool.pending, txId), pool.byAccount), "true", << >>)

\* removeTransaction(txId)
RemoveTransactionResult(pool, txId) ==
  IF ~HasTransaction(pool.pending, txId) THEN Outcome(pool, "false", << >>)
  ELSE Outcome(Pool(WithoutId(pool.pending, txId),
                    AccountIndexWithout(pool.byAccount,
                                        GetTransaction(pool.pending, txId).from, txId)),
               "true", << >>)

RECURSIVE RemoveIncluded(_, _, _)
\* the loop of handleBlockAdded: [pending, byAccount, removedCount]
RemoveIncluded(pool, txs, removedCount) ==
  IF txs = << >>
  THEN [pending |-> pool.pending, byAccount |-> pool.byAccount,
        removedCount |-> removedCount]
  ELSE RemoveIncluded(Pool(RemoveTransactionResult(pool, Head(txs).id).pending,
                           RemoveTransactionResult(pool, Head(txs).id).byAccount),
                      Tail(txs),
                      IF RemoveTransactionResult(pool, Head(txs).id).result = "true"
                      THEN removedCount + 1 ELSE removedCount)

\* handleBlockAdded(block)
HandleBlockAddedResult(pool, block) == RemoveIncluded(pool, block.transactions, 0)

RECURSIVE RemoveExpired(_, _, _, _)
\* the loop of removeExpiredTransactions over the entries of the id index:
\* [pending, byAccount, expiredCount]
RemoveExpired(pool, entries, now, expiredCount) ==
  IF entries = << >>
  THEN [pending |-> pool.pending, byAccount |-> pool.byAccount,
        expiredCount |-> expiredCount]
  ELSE IF now - Head(entries).addedAt > ExpirationTime
       THEN RemoveExpired(Pool(RemoveTransactionResult(pool, Head(entries).id).pending,
                               RemoveTransactionResult(pool, Head(entries).id).byAccount),
                          Tail(entries), now,
                          IF RemoveTransactionResult(pool, Head(entries).id).result = "true"
                          THEN expiredCount + 1 ELSE expiredCount)
       ELSE RemoveExpired(pool, Tail(entries), now, expiredCount)

\* removeExpiredTransactions()
RemoveExpiredTransactionsResult(pool, now) == RemoveExpired(pool, pool.pending, now, 0)

RECURSIVE InsertByFee(_, _)
\* tx placed behind every entry whose fee is not lower: the comparator
\* Number(b.fee) - Number(a.fee) under the stable Array.prototype.sort
InsertByFee(sorted, tx) ==
  IF sorted = << >> THEN <<tx>>
  ELSE IF FeeAsNumber(Head(sorted).fee) - FeeAsNumber(tx.fee) >= 0
       THEN <<Head(sorted)>> \o InsertByFee(Tail(sorted), tx)
  ELSE <<tx>> \o sorted

RECURSIVE SortByFee(_, _)
SortByFee(sorted, rest) ==
  IF rest = << >> THEN sorted
  ELSE SortByFee(InsertByFee(sorted, Head(rest)), Tail(rest))

\* array.slice(0, end), end >= 0
Slice(array, end) == SubSeq(array, 1, IF end < Len(array) THEN end ELSE Len(array))

\* getAllTransactions()
GetAllTransactions(pending) == pending

\* faulty variant: the first maxCount entries in insertion order
GetTransactionsForBlock_Unsorted(pending, maxCount) ==
  Slice(GetAllTransactions(pending), maxCount)

\* getTransactionsForBlock(maxCount)
GetTransactionsForBlock(pending, maxCount) ==
  Slice(SortByFee(<< >>, GetAllTransactions(pending)), maxCount)

(***************************************************************************)
(* Mempool inputs                                                          *)
(***************************************************************************)
MempoolTx(id, from, fee) == [id |-> id, from |-> from, fee |-> fee]

\* three transactions of alice and two of bob with fees in no order, one of
\* carol below the minimum fee, and tx1 submitted again with another fee
MempoolTransactions ==
  { MempoolTx("tx1", "alice", 1), MempoolTx("tx2", "alice", 3),
    MempoolTx("tx3", "alice", 2), MempoolTx("tx4", "bob", 3),
    MempoolTx("tx5", "bob", 1),   MempoolTx("tx6", "carol", 0),
    MempoolTx("tx1", "alice", 5) }

MempoolTxIds == {tx.id : tx \in MempoolTransactions} \cup {"tx7"}

\* transactions as delivered by 'mempool.transaction.received', signed or with an
\* empty signature
ReceivedTransaction(tx, signature) ==
  [id |-> tx.id, from |-> tx.from, fee |-> tx.fee, to |-> "dave", amount |-> 10,
   signature |-> signature]
ReceivedTransactions ==
  {ReceivedTransaction(tx, signature) :
     tx \in MempoolTransactions, signature \in {"", "sig"}}

\* blocks as delivered by 'blockchain.block.added'
MempoolBlock(hash, transactions) == [hash |-> hash, transactions |-> transactions]
MempoolBlocks ==
  { MempoolBlock(<<"blockA">>, <<MempoolTx("tx1", "alice", 1), MempoolTx("tx4", "bob", 3)>>),
    MempoolBlock(<<"blockB">>, <<MempoolTx("tx2", "alice", 3), MempoolTx("tx2", "alice", 3),
                                 MempoolTx("tx7", "dave", 4)>>),
    MempoolBlock(<<"blockC">>, << >>) }

(***************************************************************************)
(* Mempool actions                                                         *)
(***************************************************************************)
\* addTransaction(transaction)
AddTransaction(tx) ==
  /\ \E r \in {AddTransactionResult(CurrentPool, tx, clock)} :
       /\ pendingTransactions' = r.pending
       /\ transactionsByAccount' = r.byAccount
       /\ lastOp' = [op |-> "addTransaction", tx |-> tx, result |-> r.result,
                     events |-> r.events]
  /\ UNCHANGED <<ledgerVars, stateVars, consensusVars, libraryVars, p2pVars>>

\* removeTransaction(txId)
RemoveTransaction(txId) ==
  /\ \E r \in {RemoveTransactionResult(CurrentPool, txId)} :
       /\ pendingTransactions' = r.pending
       /\ transactionsByAccount' = r.byAccount
       /\ lastOp' = [op |-> "removeTransaction", txId |-> txId, result |-> r.result]
  /\ UNCHANGED <<ledgerVars, stateVars, consensusVars, libraryVars, p2pVars>>

\* 'blockchain.block.added' event: handleBlockAdded(block)
HandleBlockAdded(block) ==
  /\ \E r \in {HandleBlockAddedResult(CurrentPool, block)} :
       /\ pendingTransactions' = r.pending
       /\ transactionsByAccount' = r.byAccount
       /\ lastOp' = [op |-> "handleBlockAdded", block |-> block, result |-> "returned",
                     removedCount |-> r.removedCount]
  /\ UNCHANGED <<ledgerVars, stateVars, consensusVars, libraryVars, p2pVars>>

\* getTransactionsForBlock(maxCount)
GetTransactionsForBlockCall(maxCount) ==
  /\ lastOp' = [op |-> "getTransactionsForBlock", maxCount |-> maxCount,
                returned |-> GetTransactionsForBlock(pendingTransactions, maxCount)]
  /\ UNCHANGED <<ledgerVars, stateVars, consensusVars, libraryVars, p2pVars, mempoolVars>>

\* 'mempool.transaction.received' event: handleReceivedTransaction(payload)
HandleReceivedTransaction(transaction) ==
  /\ \E r \in {HandleReceivedTransactionResult(CurrentPool, transaction, clock)} :
       /\ pendingTransactions' = r.pending
       /\ transactionsByAccount' = r.byAccount
       /\ lastOp' = [op |-> "handleReceivedTransaction", tx |-> transaction,
                     result |-> r.result, events |-> r.events]
  /\ UNCHANGED <<ledgerVars, stateVars, consensusVars, libraryVars, p2pVars>>

\* the cron task of every minute: removeExpiredTransactions()
RemoveExpiredTransactions ==
  /\ \E r \in {RemoveExpiredTransactionsResult(CurrentPool, clock)} :
       /\ pendingTransactions' = r.pending
       /\ transactionsByAccount' = r.byAccount
       /\ lastOp' = [op |-> "removeExpiredTransactions", expiredCount |-> r.expiredCount]
  /\ UNCHANGED <<ledgerVars, stateVars, consensusVars, libraryVars, p2pVars>>

\* clear()
Clear ==
  /\ pendingTransactions' = << >>
  /\ transactionsByAccount' = EmptyMap
  /\ lastOp' = [op |-> "clear", result |-> Len(pendingTransactions)]
  /\ UNCHANGED <<ledgerVars, stateVars, consensusVars, libraryVars, p2pVars>>

InitMempool ==
  InitLedgerVars /\ InitStateVars /\ InitConsensusVars /\ InitP2PVars /\ InitMempoolVars /\ InitLibraryVars /\ lastOp = NoOp

NextMempool ==
  \/ \E tx \in MempoolTransactions : AddTransaction(tx)
  \/ \E txId \in MempoolTxIds : RemoveTransaction(txId)
  \/ \E block \in MempoolBlocks : HandleBlockAdded(block)
  \/ \E maxCount \in 0..MaxCount : GetTransactionsForBlockCall(maxCount)
  \/ \E transaction \in ReceivedTransactions : HandleReceivedTransaction(transaction)
  \/ RemoveExpiredTransactions
  \/ Clear
  \/ Tick

SpecMempool == InitMempool /\ [][NextMempool]_vars

(***************************************************************************)
(* Mempool claims                                                          *)
(***************************************************************************)
\* the four admission conditions of a transaction, in the state before the call
Admissible(tx) ==
  /\ \A i \in DOMAIN pendingTransactions : pendingTransactions[i].id # tx.id
  /\ Len(pendingTransactions) < MaxSize
  /\ (tx.from \in DOMAIN transactionsByAccount
        => Cardinality(transactionsByAccount[tx.from]) < MaxSizePerAccount)
  /\ tx.fee >= MinFee

\* C12: addTransaction inserts the transaction (into the id index, with the
\* admission time, and into the sender index) exactly when its id is not
\* pending, the pool holds fewer than maxSize entries, the sender has fewer
\* than maxSizePerAccount pending and the fee is at least minFee; otherwise
\* it is rejected (false for a pending id, an error in the other cases),
\* both indexes stay as they are and no 'mempool.transaction.added' event
\* is emitted.
AdmissionExactlyWhenAllowed ==
  [][lastOp'.op = "addTransaction"
       => IF Admissible(lastOp'.tx)
          THEN /\ lastOp'.result = "true"
               /\ pendingTransactions' =
                    Append(pendingTransactions,
                           [id |-> lastOp'.tx.id, from |-> lastOp'.tx.from,
                            fee |-> lastOp'.tx.fee, addedAt |-> clock])
               /\ DOMAIN transactionsByAccount'
                    = DOMAIN transactionsByAccount \cup {lastOp'.tx.from}
               /\ \A a \in DOMAIN transactionsByAccount' :
                    transactionsByAccount'[a] =
                      IF a = lastOp'.tx.from
                      THEN {lastOp'.tx.id} \cup
                           (IF a \in DOMAIN transactionsByAccount
                            THEN transactionsByAccount[a] ELSE {})
                      ELSE transactionsByAccount[a]
               /\ lastOp'.events = <<"mempool.transaction.added">>
          ELSE /\ UNCHANGED mempoolVars
               /\ lastOp'.events = << >>
               /\ IF \E i \in DOMAIN pendingTransactions :
                        pendingTransactions[i].id = lastOp'.tx.id
                  THEN lastOp'.result = "false"
                  ELSE lastOp'.result \notin {"true", "false"}]_vars

\* a transaction has just been admitted as the second of its sender, which
\* brings the sender to the per-account limit
AdmissionWitness ==
  /\ lastOp.op = "addTransaction"
  /\ lastOp.result = "true"
  /\ Cardinality(transactionsByAccount[lastOp.tx.from]) = MaxSizePerAccount
  /\ Len(pendingTransactions) >= 2

BlockTxIds(block) == {block.transactions[i].id : i \in DOMAIN block.transactions}

RECURSIVE Kept(_, _)
\* the entries of pending whose id is not in ids, in their order
Kept(pending, ids) ==
  IF pending = << >> THEN << >>
  ELSE IF Head(pending).id \in ids THEN Kept(Tail(pending), ids)
  ELSE <<Head(pending)>> \o Kept(Tail(pending), ids)

\* C14: removal is idempotent.  After handleBlockAdded(block) no transaction
\* id of the block is pending and every other entry is as it was, in both
\* indexes; handleBlockAdded of a block none of whose ids is pending (the
\* same block delivered again) and removeTransaction of an id that is not
\* pending change neither index and raise no error.
RemovalIdempotent ==
  [][/\ lastOp'.op = "handleBlockAdded"
          => /\ lastOp'.result = "returned"
             /\ pendingTransactions' = Kept(pendingTransactions, BlockTxIds(lastOp'.block))
             /\ \A a \in DOMAIN transactionsByAccount :
                  IF transactionsByAccount[a] \subseteq BlockTxIds(lastOp'.block)
                  THEN a \notin DOMAIN transactionsByAccount'
                  ELSE /\ a \in DOMAIN transactionsByAccount'
                       /\ transactionsByAccount'[a]
                            = transactionsByAccount[a] \ BlockTxIds(lastOp'.block)
             /\ DOMAIN transactionsByAccount' \subseteq DOMAIN transactionsByAccount
             /\ (BlockTxIds(lastOp'.block) \cap PendingIds(pendingTransactions) = {}
                   => UNCHANGED mempoolVars)
     /\ (/\ lastOp'.op = "removeTransaction"
         /\ lastOp'.txId \notin PendingIds(pendingTransactions))
          => /\ lastOp'.result = "false"
             /\ UNCHANGED mempoolVars]_vars

\* a block whose transactions are no longer pending has just been delivered
\* to a pool that still holds other transactions
RemovalIdempotentWitness ==
  /\ lastOp.op = "handleBlockAdded"
  /\ lastOp.block.transactions # << >>
  /\ lastOp.removedCount = 0
  /\ pendingTransactions # << >>


\* C36: the two indexes of the pool agree and respect the limits: an id is
\* pending iff it is in the bucket of its sender, it is in no other bucket,
\* no bucket is empty, the pool holds at most maxSize transactions and a
\* bucket at most maxSizePerAccount ids.
MempoolIndexesConsistent ==
  /\ \A i \in DOMAIN pendingTransactions :
       /\ pendingTransactions[i].from \in DOMAIN transactionsByAccount
       /\ pendingTransactions[i].id \in transactionsByAccount[pendingTransactions[i].from]
  /\ \A a \in DOMAIN transactionsByAccount :
       /\ transactionsByAccount[a] # {}
       /\ Cardinality(transactionsByAccount[a]) <= MaxSizePerAccount
       /\ \A id \in transactionsByAccount[a] :
            /\ HasTransaction(pendingTransactions, id)
            /\ GetTransaction(pendingTransactions, id).from = a
  /\ \A i, j \in DOMAIN pendingTransactions :
       pendingTransactions[i].id = pendingTransactions[j].id => i = j
  /\ Len(pendingTransactions) <= MaxSize

\* the cron task has just removed the transactions admitted before the last
\* tick, and the pool still holds one admitted after it
MempoolIndexesWitness ==
  /\ lastOp.op = "removeExpiredTransactions"
  /\ lastOp.expiredCount >= 2
  /\ Len(pendingTransactions) >= 1
  /\ DOMAIN transactionsByAccount # {}

\* C37: handleReceivedTransaction of a transaction whose id is already
\* pending (addTransaction returns false) or that is rejected emits no
\* 'mempool.transaction.validated' event, so the event is emitted at most
\* once for an id while it stays in the pool.
RelayOnlyOnAdmission ==
  [][(/\ lastOp'.op = "handleReceivedTransaction"
      /\ \/ HasTransaction(pendingTransactions, lastOp'.tx.id)
         \/ lastOp'.result # "true")
       => \A i \in DOMAIN lastOp'.events :
             lastOp'.events[i] # "mempool.transaction.validated"]_vars

\* the message types that handleMessage forwards to the node as events
AnnouncementTypes == {"BLOCK_ANNOUNCEMENT", "TRANSACTION_ANNOUNCEMENT", "CONSENSUS_MESSAGE"}

\* the event emitted by the case of handleMessage for the type
EmittedEvent(type) ==
  CASE type = "BLOCK_ANNOUNCEMENT" -> "block-announcement"
    [] type = "TRANSACTION_ANNOUNCEMENT" -> "transaction"
    [] type = "CONSENSUS_MESSAGE" -> "consensus-message"

\* ws.on('message') -> handleMessage, cases BLOCK_ANNOUNCEMENT,
\* TRANSACTION_ANNOUNCEMENT and CONSENSUS_MESSAGE
ReceiveAnnouncement(ws, type) ==
  /\ sockets[ws].readyState = "open"
  /\ lastOp' = [op |-> "handleMessage", type |-> type, socket |-> ws,
                emitted |-> << EmittedEvent(type) >>]
  /\ UNCHANGED <<p2pVars, ledgerVars, stateVars, consensusVars, libraryVars, mempoolVars>>

NextP2PMessages ==
  \/ HandleConnection
  \/ \E peer \in SeedPeers : ConnectToPeer(peer)
  \/ \E ws \in DOMAIN sockets : SocketOpen(ws)
  \/ \E ws \in DOMAIN sockets, payload \in HandshakePayloads : ReceiveHandshake(ws, payload)
  \/ \E ws \in DOMAIN sockets, type \in AnnouncementTypes : ReceiveAnnouncement(ws, type)
  \/ \E ws \in DOMAIN sockets : SocketClosed(ws)

SpecP2PMessages == InitP2P /\ [][NextP2PMessages]_vars

\* C32: a BLOCK_ANNOUNCEMENT, TRANSACTION_ANNOUNCEMENT or CONSENSUS_MESSAGE is
\* forwarded as an event only if its connection has completed a handshake
\* with the matching networkId before.  A connection accepted by the previous
\* step has handled no message yet: an announcement that is the first
\* message on it is not forwarded.
AnnouncementsOnlyAfterHandshake ==
  [][(/\ lastOp.op = "handleConnection"
      /\ lastOp'.op = "handleMessage"
      /\ lastOp'.type \in AnnouncementTypes
      /\ lastOp'.socket = lastOp.socket)
       => lastOp'.emitted = << >>]_vars

\* the handlers run whenever a message or socket event is pending: some step
\* of the node is eventually taken
SpecP2PFair == SpecP2P /\ WF_vars(NextP2P)

\* a message of the given type has been sent on socket ws by the last step
SentOn(ws, type) ==
  /\ "sent" \in DOMAIN lastOp
  /\ \E i \in DOMAIN lastOp.sent : lastOp.sent[i] = Message(ws, type)

\* C31: a PEER_DISCOVERY request with an empty payload received on a
\* connection is eventually answered on that connection with a PEER_LIST
\* message (unless the connection is closed first).
DiscoveryRequestAnswered ==
  \A ws \in 1..MaxSockets :
    (/\ lastOp.op = "handlePeerDiscovery"
     /\ lastOp.socket = ws
     /\ lastOp.payload = EmptyMap)
      ~> \/ SentOn(ws, "PEER_LIST")
         \/ ws \notin DOMAIN sockets
         \/ sockets[ws].readyState = "closed"

\* C39: there is at most one socket per peer id.  connectToPeer for an id
\* that has a socket connecting or open creates no second socket, and the
\* close of a socket leaves the connections entry of every other open socket
\* as it is.
OneSocketPerPeerId ==
  [][/\ (/\ lastOp'.op = "connectToPeer"
         /\ \E ws \in DOMAIN sockets :
              /\ sockets[ws].peerId = lastOp'.peerId
              /\ sockets[ws].readyState \in {"connecting", "open"})
          => sockets' = sockets
     /\ lastOp'.op = "close"
          => \A id \in DOMAIN connections :
               (/\ connections[id] # lastOp'.socket
                /\ sockets[connections[id]].readyState = "open")
                 => /\ id \in DOMAIN connections'
                    /\ connections'[id] = connections[id]]_vars

(***************************************************************************)
(* Blockchain actions                                                      *)
(***************************************************************************)
\* Blockchain.addTransaction(transaction)
BlockchainAddTransaction(transaction) ==
  /\ Len(mempool) < MaxMempoolLength
  /\ \E valid \in {BlockchainValidateTransaction(state.balances, transaction)} :
       /\ mempool' = IF valid THEN Append(mempool, transaction) ELSE mempool
       /\ lastOp' = [op |-> "Blockchain.addTransaction", tx |-> transaction,
                     result |-> valid]
  /\ UNCHANGED <<chain, state, ledgerVars, stateVars, consensusVars, p2pVars, mempoolVars>>

\* Blockchain.createBlock(validatorAddress)
BlockchainCreateBlock(validatorAddress) ==
  /\ mempool' = << >>
  /\ lastOp' = [op |-> "Blockchain.createBlock",
                returned |-> IF Len(mempool) = 0 THEN <<"null">>
                             ELSE <<CreatedBlock(chain, mempool, validatorAddress, clock)>>]
  /\ UNCHANGED <<chain, state, ledgerVars, stateVars, consensusVars, p2pVars, mempoolVars>>

\* Blockchain.addBlock(block)
BlockchainAddBlock(block) ==
  /\ Len(chain) < MaxChainLength
  /\ \E valid \in {BlockchainValidateBlock(chain, state, block)} :
       /\ chain' = IF valid THEN Append(chain, block) ELSE chain
       /\ state' = IF valid THEN UpdateState(state, block) ELSE state
       /\ lastOp' = [op |-> "Blockchain.addBlock", block |-> block, result |-> valid]
  /\ UNCHANGED <<mempool, ledgerVars, stateVars, consensusVars, p2pVars, mempoolVars>>

InitBlockchain ==
  InitLedgerVars /\ InitStateVars /\ InitConsensusVars /\ InitP2PVars /\ InitMempoolVars /\ InitLibraryVars /\ lastOp = NoOp

NextBlockchain ==
  \/ \E transaction \in BlockchainTransactions : BlockchainAddTransaction(transaction)
  \/ BlockchainCreateBlock("CHKvalidator1")
  \/ \E block \in OfferedBlocks(chain, clock) : BlockchainAddBlock(block)

SpecBlockchain == InitBlockchain /\ [][NextBlockchain]_vars

\* C40: no balance of the Blockchain class is ever negative, whatever
\* transactions have been admitted, placed in blocks and added.
BlockchainBalancesNonNegative ==
  \A address \in DOMAIN state.balances : state.balances[address] >= 0

====
